---- MODULE Spec2Model ----
(***************************************************************************)
(* Model of the alpaka job coverage library: the row accessors of util.py, *)
(* the four filter modules, and the validation tool of validate.py, with   *)
(* the position map param_map as process-wide state.                       *)
(*                                                                         *)
(* Python values are modelled as follows.                                  *)
(*  - A bool result or a raised exception is one of the strings "True",    *)
(*    "False", "KeyError", "ValueError", "IndexError", "TypeError".        *)
(*  - A version string is the sequence of its dot separated numbers:       *)
(*    "11.2" is <<11, 2>>, "14" is <<14>>, "14.0" is <<14, 0>>.  Two       *)
(*    version strings are the same string iff the sequences are equal.     *)
(*  - A row element is a tuple (name, version) or a list of such tuples    *)
(*    (the backends); both carry their Python type in the field kind.      *)
(*  - A dict is a function; param_map maps parameter names to 0-based      *)
(*    indexes as in the source, so the element of parameter p is           *)
(*    row[param_map[p] + 1].                                               *)
(***************************************************************************)
EXTENDS Integers, Sequences, FiniteSets, TLC

VARIABLES
    param_map,        \* the dict object created in globals, read by util and the filters
    validate_shared,  \* TRUE while validate.py's name param_map is still that object
    validate_map,     \* validate.py's own dict once its name has been rebound
    pc,               \* "idle", or "returned" after a call
    fn,               \* the function called last
    row,              \* the row it was called with
    arg,              \* its other arguments
    result,           \* what it returned or raised
    job_matrix,       \* the job list of the caller of the util job functions
    parameters,       \* the module-level name parameters of impl2.py
    versions          \* the dict versions of versions.py

vars ==
    <<param_map, validate_shared, validate_map, pc, fn, row, arg, result, job_matrix,
      parameters, versions>>

(***************************************************************************)
(* Names of globals                                                        *)
(***************************************************************************)
NAME == "name"
VERSION == "version"

HOST_COMPILER == "host_compiler"
DEVICE_COMPILER == "device_compiler"
BACKENDS == "backends"
UBUNTU == "ubuntu"
CMAKE == "cmake"
BOOST == "boost"
CXX_STANDARD == "cxx_standard"

GCC == "gcc"
CLANG == "clang"
NVCC == "nvcc"
CLANG_CUDA == "clang-cuda"
HIPCC == "hipcc"
ICPX == "icpx"

ALPAKA_ACC_GPU_CUDA_ENABLE == "alpaka_ACC_GPU_CUDA_ENABLE"
ALPAKA_ACC_GPU_HIP_ENABLE == "alpaka_ACC_GPU_HIP_ENABLE"
ALPAKA_ACC_SYCL_ENABLE == "alpaka_ACC_SYCL_ENABLE"
ALPAKA_ACC_CPU_B_SEQ_T_SEQ_ENABLE == "alpaka_ACC_CPU_B_SEQ_T_SEQ_ENABLE"

OFF_VER == <<0, 0, 0>>
ON_VER == <<1, 0, 0>>

known_compiler == {GCC, CLANG, NVCC, CLANG_CUDA, HIPCC, ICPX}

(***************************************************************************)
(* Row elements                                                            *)
(***************************************************************************)
Tup(n, v) == [kind |-> "tuple", name |-> n, version |-> v]
Lst(items) == [kind |-> "list", items |-> items]

EmptyDict == [p \in {} |-> 0]

\* a module-level name that no statement has bound yet
Undefined == [defined |-> FALSE, value |-> << >>]

(***************************************************************************)
(* Python truth values with exceptions                                     *)
(***************************************************************************)
PyBool(b) == IF b THEN "True" ELSE "False"

IsBool(r) == r \in {"True", "False"}

\* a and b: b is evaluated only when a is True; an exception of a propagates
PyAnd(a, b) == IF a = "True" THEN b ELSE a

\* a or b
PyOr(a, b) == IF a = "False" THEN b ELSE a

\* not a
PyNot(a) == IF a = "True" THEN "False" ELSE IF a = "False" THEN "True" ELSE a

\* if cond: return False  -- followed by the rest of the function
RejectIf(cond, rest) ==
    IF cond = "True" THEN "False" ELSE IF cond = "False" THEN rest ELSE cond

(***************************************************************************)
(* Versions: packaging.version.parse and its comparison                    *)
(***************************************************************************)
RECURSIVE parse(_)
\* the release tuple the comparison key is built from: trailing zeros dropped
parse(v) ==
    IF Len(v) > 0 /\ v[Len(v)] = 0 THEN parse(SubSeq(v, 1, Len(v) - 1)) ELSE v

RECURSIVE TupleLess(_, _)
\* Python's tuple order on release tuples
TupleLess(a, b) ==
    IF Len(a) = 0 THEN Len(b) > 0
    ELSE IF Len(b) = 0 THEN FALSE
    ELSE IF a[1] < b[1] THEN TRUE
    ELSE IF a[1] > b[1] THEN FALSE
    ELSE TupleLess(Tail(a), Tail(b))

Operators == {"==", "!=", "<", "<=", ">", ">="}

\* OPERATOR_MAP[opr](a, b) on parsed versions
OPERATOR_MAP(opr, a, b) ==
    CASE opr = "==" -> a = b
      [] opr = "!=" -> a # b
      [] opr = "<"  -> TupleLess(a, b)
      [] opr = "<=" -> TupleLess(a, b) \/ a = b
      [] opr = ">"  -> TupleLess(b, a)
      [] opr = ">=" -> TupleLess(b, a) \/ a = b

\* pk_version.parse(v) opr pk_version.parse(w)
VersionCompare(v, opr, w) == OPERATOR_MAP(opr, parse(v), parse(w))

\* int(version string) succeeds for a string of digits only
IntParsable(v) == Len(v) = 1

(***************************************************************************)
(* util.py: row accessors.  pm is the dict util's name param_map refers to *)
(***************************************************************************)
\* row[param_map[p]]
Elem(pm, r, p) == r[pm[p] + 1]

\* whether e[k] exists: a tuple has both items, a list as many as it holds
ItemOk(e, k) ==
    e.kind = "tuple" \/ Len(e.items) >= (IF k = NAME THEN 1 ELSE 2)

\* e[k]: a str of a tuple, or a whole tuple of a list
Item(e, k) ==
    IF e.kind = "tuple"
    THEN [t |-> "str", s |-> e[k]]
    ELSE [t |-> "tuple", s |-> e.items[IF k = NAME THEN 1 ELSE 2]]

\* a != b on two items; values of different types are never equal
ItemNe(a, b) == IF a.t # b.t THEN TRUE ELSE a.s # b.s

is_in_row(pm, r, name) ==
    IF name \notin DOMAIN pm THEN "KeyError" ELSE PyBool(pm[name] < Len(r))

row_check_name(pm, r, colum, opr, name) ==
    IF opr \notin {"==", "!="} THEN "ValueError"
    ELSE PyAnd(is_in_row(pm, r, colum),
               LET e == Elem(pm, r, colum)
               IN  IF ~ItemOk(e, NAME) THEN "IndexError"
                   ELSE LET ne == ItemNe(Item(e, NAME), [t |-> "str", s |-> name])
                        IN  PyBool(IF opr = "==" THEN ~ne ELSE ne))

row_check_version(pm, r, colum, opr, version) ==
    IF opr \notin Operators THEN "ValueError"
    ELSE PyAnd(is_in_row(pm, r, colum),
               LET e == Elem(pm, r, colum)
               IN  IF ~ItemOk(e, VERSION) THEN "IndexError"
                   ELSE IF e.kind # "tuple" THEN "TypeError"
                   ELSE PyBool(VersionCompare(e[VERSION], opr, version)))

\* the (name, version) tuples a loop over row[param_map[BACKENDS]] can match:
\* the characters of a tuple's strings match no backend name
BackendItems(pm, r) ==
    LET e == Elem(pm, r, BACKENDS) IN IF e.kind = "list" THEN e.items ELSE <<>>

\* index of the first entry named backend, 0 if there is none
FirstBackend(items, backend) ==
    IF \E i \in 1..Len(items) : items[i][NAME] = backend
    THEN CHOOSE i \in 1..Len(items) :
            /\ items[i][NAME] = backend
            /\ \A j \in 1..(i - 1) : items[j][NAME] # backend
    ELSE 0

\* a back-end set to OFF counted as not in the row
backend_is_not_in_row_off_is_absent(pm, r, backend) ==
    LET present == is_in_row(pm, r, BACKENDS)
    IN  IF present = "False" THEN "True"
        ELSE IF present # "True" THEN present
        ELSE LET i == FirstBackend(BackendItems(pm, r), backend)
             IN  PyBool(i = 0 \/ BackendItems(pm, r)[i][VERSION] = OFF_VER)

backend_is_not_in_row(pm, r, backend) ==
    LET present == is_in_row(pm, r, BACKENDS)
    IN  IF present = "False" THEN "True"
        ELSE IF present # "True" THEN present
        ELSE PyBool(FirstBackend(BackendItems(pm, r), backend) = 0)

\* a back-end that is not in the list compared as if it were set to OFF
row_check_backend_version_absent_is_off(pm, r, backend, opr, version) ==
    IF opr \notin Operators THEN "ValueError"
    ELSE LET present == is_in_row(pm, r, BACKENDS)
         IN  IF present # "True" THEN present
             ELSE LET items == BackendItems(pm, r)
                      i == FirstBackend(items, backend)
                  IN  IF i = 0 THEN PyBool(VersionCompare(OFF_VER, opr, version))
                      ELSE PyBool(VersionCompare(items[i][VERSION], opr, version))

row_check_backend_version(pm, r, backend, opr, version) ==
    IF opr \notin Operators THEN "ValueError"
    ELSE LET present == is_in_row(pm, r, BACKENDS)
         IN  IF present # "True" THEN present
             ELSE LET items == BackendItems(pm, r)
                      i == FirstBackend(items, backend)
                  IN  IF i = 0 THEN "False"
                      ELSE PyBool(VersionCompare(items[i][VERSION], opr, version))

\* int(row[param_map[colum]][VERSION]) opr bound, for opr "<=" or ">="
IntCompare(pm, r, colum, opr, bound) ==
    LET e == Elem(pm, r, colum)
    IN  IF ~ItemOk(e, VERSION) THEN "IndexError"
        ELSE IF e.kind # "tuple" THEN "TypeError"
        ELSE IF ~IntParsable(e[VERSION]) THEN "ValueError"
        ELSE PyBool(IF opr = "<=" THEN e[VERSION][1] <= bound
                                  ELSE e[VERSION][1] >= bound)

(***************************************************************************)
(* filter_compiler_name.py                                                 *)
(***************************************************************************)
\* the filter without the rule that nvcc needs gcc or clang as host compiler
general_compiler_filter_any_nvcc_host(pm, r) ==
    RejectIf(row_check_name(pm, r, HOST_COMPILER, "==", NVCC),
    RejectIf(PyAnd(is_in_row(pm, r, HOST_COMPILER),
             PyAnd(is_in_row(pm, r, DEVICE_COMPILER),
                   PyBool(/\ Elem(pm, r, DEVICE_COMPILER)[NAME] # NVCC
                          /\ Elem(pm, r, HOST_COMPILER)[NAME]
                                # Elem(pm, r, DEVICE_COMPILER)[NAME]))),
    "True"))

general_compiler_filter(pm, r) ==
    RejectIf(row_check_name(pm, r, HOST_COMPILER, "==", NVCC),
    RejectIf(PyAnd(is_in_row(pm, r, HOST_COMPILER),
             PyAnd(is_in_row(pm, r, DEVICE_COMPILER),
                   LET h == Elem(pm, r, HOST_COMPILER)
                       d == Elem(pm, r, DEVICE_COMPILER)
                   IN  IF ~ItemOk(d, NAME) THEN "IndexError"
                       ELSE IF ~ItemNe(Item(d, NAME), [t |-> "str", s |-> NVCC])
                       THEN "False"
                       ELSE IF ~ItemOk(h, NAME) THEN "IndexError"
                       ELSE PyBool(ItemNe(Item(h, NAME), Item(d, NAME))))),
    RejectIf(PyAnd(row_check_name(pm, r, DEVICE_COMPILER, "==", NVCC),
                   PyNot(PyOr(row_check_name(pm, r, HOST_COMPILER, "==", GCC),
                              row_check_name(pm, r, HOST_COMPILER, "==", CLANG)))),
    "True")))

(***************************************************************************)
(* filter_compiler_version.py                                              *)
(***************************************************************************)
\* (maximum_CUDA_SDK_version, maximum_gcc_version)
gcc_combinations ==
    << << <<12, 3>>, <<12>> >>, << <<12, 0>>, <<12>> >>, << <<11, 4>>, <<11>> >>,
       << <<11, 1>>, <<10>> >>, << <<11, 0>>, <<9>> >>, << <<10, 1>>, <<8>> >>,
       << <<10, 0>>, <<7>> >> >>

\* (maximum_CUDA_SDK_version, maximum_clang_version)
clang_combinations ==
    << << <<12, 3>>, <<16>> >>, << <<12, 2>>, <<15>> >>, << <<12, 1>>, <<15>> >>,
       << <<12, 0>>, <<14>> >>, << <<11, 6>>, <<13>> >>, << <<11, 4>>, <<12>> >>,
       << <<11, 2>>, <<11>> >>, << <<11, 1>>, <<10>> >>, << <<11, 0>>, <<9>> >>,
       << <<10, 1>>, <<8>> >>, << <<10, 0>>, <<6>> >> >>

RECURSIVE MaxHostVersionExceededBelowBound(_, _, _, _)
\* the walk deciding on the first entry whose SDK version is >= the nvcc version
MaxHostVersionExceededBelowBound(combinations, i, nvcc, host) ==
    IF i > Len(combinations) THEN FALSE
    ELSE IF VersionCompare(nvcc, "<=", combinations[i][1])
    THEN VersionCompare(host, ">", combinations[i][2])
    ELSE MaxHostVersionExceededBelowBound(combinations, i + 1, nvcc, host)

RECURSIVE MaxHostVersionExceeded(_, _, _, _)
\* for combination in combinations: the first entry whose SDK version is <= the
\* nvcc version decides (return False or break)
MaxHostVersionExceeded(combinations, i, nvcc, host) ==
    IF i > Len(combinations) THEN FALSE
    ELSE IF VersionCompare(nvcc, ">=", combinations[i][1])
    THEN VersionCompare(host, ">", combinations[i][2])
    ELSE MaxHostVersionExceeded(combinations, i + 1, nvcc, host)

\* the gcc rules without the check that the nvcc version is covered by the table
NvccGccRejectsUnguarded(nvcc, host) ==
    \/ MaxHostVersionExceeded(gcc_combinations, 1, nvcc, host)
    \/ /\ VersionCompare(nvcc, ">=", <<11, 4>>)
       /\ VersionCompare(host, "<", <<6>>)

\* the rules for nvcc with gcc as host compiler
NvccGccRejects(nvcc, host) ==
    /\ VersionCompare(nvcc, "<=", gcc_combinations[1][1])
    /\ \/ MaxHostVersionExceeded(gcc_combinations, 1, nvcc, host)
       \/ /\ VersionCompare(nvcc, ">=", <<11, 4>>)
          /\ VersionCompare(host, "<", <<6>>)

\* the clang rules without the range of nvcc versions that support no clang
NvccClangRejectsTableOnly(nvcc, host) ==
    /\ VersionCompare(nvcc, "<=", clang_combinations[1][1])
    /\ MaxHostVersionExceeded(clang_combinations, 1, nvcc, host)

\* the rules for nvcc with clang as host compiler
NvccClangRejects(nvcc, host) ==
    \/ /\ VersionCompare(nvcc, ">=", <<11, 3>>)
       /\ VersionCompare(nvcc, "<=", <<11, 5>>)
    \/ /\ VersionCompare(nvcc, "<=", clang_combinations[1][1])
       /\ MaxHostVersionExceeded(clang_combinations, 1, nvcc, host)

compiler_version_filter(pm, r) ==
    RejectIf(PyAnd(is_in_row(pm, r, HOST_COMPILER),
             PyAnd(is_in_row(pm, r, DEVICE_COMPILER),
             PyAnd(row_check_name(pm, r, DEVICE_COMPILER, "!=", NVCC),
                   LET h == Elem(pm, r, HOST_COMPILER)
                       d == Elem(pm, r, DEVICE_COMPILER)
                   IN  IF ~ItemOk(h, VERSION) \/ ~ItemOk(d, VERSION)
                       THEN "IndexError"
                       ELSE PyBool(ItemNe(Item(h, VERSION), Item(d, VERSION)))))),
    LET isNvcc == row_check_name(pm, r, DEVICE_COMPILER, "==", NVCC)
    IN
    RejectIf(PyAnd(isNvcc,
             PyAnd(row_check_name(pm, r, HOST_COMPILER, "==", GCC),
                   PyBool(NvccGccRejects(Elem(pm, r, DEVICE_COMPILER)[VERSION],
                                         Elem(pm, r, HOST_COMPILER)[VERSION])))),
    RejectIf(PyAnd(isNvcc,
             PyAnd(row_check_name(pm, r, HOST_COMPILER, "==", CLANG),
                   PyBool(NvccClangRejects(Elem(pm, r, DEVICE_COMPILER)[VERSION],
                                           Elem(pm, r, HOST_COMPILER)[VERSION])))),
    RejectIf(PyAnd(row_check_name(pm, r, DEVICE_COMPILER, "==", CLANG_CUDA),
                   row_check_version(pm, r, DEVICE_COMPILER, "<", <<14>>)),
    "True"))))


(***************************************************************************)
(* filter_backend_version.py                                               *)
(***************************************************************************)
\* row_check_backend_version(row, backend, "!=", OFF_VER)
BackendEnabled(pm, r, backend) ==
    row_check_backend_version(pm, r, backend, "!=", OFF_VER)

\* gcc, clang: no CUDA, HIP or SYCL back-end
HostOnlyCompilerRejects(pm, r) ==
    PyOr(BackendEnabled(pm, r, ALPAKA_ACC_GPU_CUDA_ENABLE),
    PyOr(BackendEnabled(pm, r, ALPAKA_ACC_GPU_HIP_ENABLE),
         BackendEnabled(pm, r, ALPAKA_ACC_SYCL_ENABLE)))

\* the back-end of the device compiler is missing or has another version
OwnBackendMismatch(pm, r, backend) ==
    PyOr(backend_is_not_in_row(pm, r, backend),
         row_check_backend_version(pm, r, backend, "!=",
                                   Elem(pm, r, DEVICE_COMPILER)[VERSION]))

NvccRejects(pm, r) ==
    PyOr(OwnBackendMismatch(pm, r, ALPAKA_ACC_GPU_CUDA_ENABLE),
    PyOr(BackendEnabled(pm, r, ALPAKA_ACC_GPU_HIP_ENABLE),
         BackendEnabled(pm, r, ALPAKA_ACC_SYCL_ENABLE)))

\* (clang_cuda_version, cuda_sdk_version)
clangcuda_cudasdk_versions ==
    << << <<7>>, <<9, 2>> >>, << <<8>>, <<10, 0>> >>, << <<10>>, <<10, 1>> >>,
       << <<12>>, <<11, 0>> >>, << <<13>>, <<11, 2>> >>, << <<16>>, <<11, 5>> >> >>

RECURSIVE ClangCudaSdkRejects(_, _, _)
\* for clang_cuda_version, cuda_sdk_version in clangcuda_cudasdk_versions
ClangCudaSdkRejects(pm, r, i) ==
    IF i > Len(clangcuda_cudasdk_versions) THEN "False"
    ELSE LET c == PyAnd(row_check_version(pm, r, DEVICE_COMPILER, "<=",
                                          clangcuda_cudasdk_versions[i][1]),
                        row_check_backend_version(pm, r, ALPAKA_ACC_GPU_CUDA_ENABLE,
                                                  ">", clangcuda_cudasdk_versions[i][2]))
         IN  IF c = "False" THEN ClangCudaSdkRejects(pm, r, i + 1) ELSE c

\* clang-cuda checked without the table of the CUDA SDK versions
ClangCudaRejectsWithoutSdkLimit(pm, r) ==
    PyOr(PyOr(backend_is_not_in_row(pm, r, ALPAKA_ACC_GPU_CUDA_ENABLE),
              row_check_backend_version(pm, r, ALPAKA_ACC_GPU_CUDA_ENABLE,
                                        "==", OFF_VER)),
    PyOr(BackendEnabled(pm, r, ALPAKA_ACC_GPU_HIP_ENABLE),
         BackendEnabled(pm, r, ALPAKA_ACC_SYCL_ENABLE)))

ClangCudaRejects(pm, r) ==
    PyOr(PyOr(backend_is_not_in_row(pm, r, ALPAKA_ACC_GPU_CUDA_ENABLE),
              row_check_backend_version(pm, r, ALPAKA_ACC_GPU_CUDA_ENABLE,
                                        "==", OFF_VER)),
    PyOr(BackendEnabled(pm, r, ALPAKA_ACC_GPU_HIP_ENABLE),
    PyOr(BackendEnabled(pm, r, ALPAKA_ACC_SYCL_ENABLE),
         ClangCudaSdkRejects(pm, r, 1))))

\* hipcc checked against the HIP back-end alone
HipccRejectsOwnBackendOnly(pm, r) ==
    OwnBackendMismatch(pm, r, ALPAKA_ACC_GPU_HIP_ENABLE)

HipccRejects(pm, r) ==
    PyOr(OwnBackendMismatch(pm, r, ALPAKA_ACC_GPU_HIP_ENABLE),
    PyOr(BackendEnabled(pm, r, ALPAKA_ACC_GPU_CUDA_ENABLE),
         BackendEnabled(pm, r, ALPAKA_ACC_SYCL_ENABLE)))

IcpxRejects(pm, r) ==
    PyOr(BackendEnabled(pm, r, ALPAKA_ACC_GPU_CUDA_ENABLE),
         BackendEnabled(pm, r, ALPAKA_ACC_GPU_HIP_ENABLE))

compiler_backend_filter(pm, r) ==
    RejectIf(PyAnd(row_check_name(pm, r, DEVICE_COMPILER, "==", GCC),
                   HostOnlyCompilerRejects(pm, r)),
    RejectIf(PyAnd(row_check_name(pm, r, DEVICE_COMPILER, "==", CLANG),
                   HostOnlyCompilerRejects(pm, r)),
    RejectIf(PyAnd(row_check_name(pm, r, DEVICE_COMPILER, "==", NVCC),
                   NvccRejects(pm, r)),
    RejectIf(PyAnd(row_check_name(pm, r, DEVICE_COMPILER, "==", CLANG_CUDA),
                   ClangCudaRejects(pm, r)),
    RejectIf(PyAnd(row_check_name(pm, r, DEVICE_COMPILER, "==", HIPCC),
                   HipccRejects(pm, r)),
    RejectIf(PyAnd(row_check_name(pm, r, DEVICE_COMPILER, "==", ICPX),
                   IcpxRejects(pm, r)),
    "True"))))))

(***************************************************************************)
(* filter_software_dependency.py                                           *)
(***************************************************************************)
\* (nvcc version, C++ standard): an older nvcc does not support the standard
nvcc_cxx_versions ==
    << << <<11, 0>>, 17 >>, << <<12, 0>>, 20 >>, << <<12, 3>>, 23 >> >>

RECURSIVE NvccCxxRejects(_, _, _)
\* for nvcc_version, cxx_version in nvcc_cxx_versions
NvccCxxRejects(pm, r, i) ==
    IF i > Len(nvcc_cxx_versions) THEN "False"
    ELSE LET c == PyAnd(PyBool(VersionCompare(Elem(pm, r, DEVICE_COMPILER)[VERSION],
                                              "<", nvcc_cxx_versions[i][1])),
                        IntCompare(pm, r, CXX_STANDARD, ">=", nvcc_cxx_versions[i][2]))
         IN  IF c = "False" THEN NvccCxxRejects(pm, r, i + 1) ELSE c

\* Clang 9 and older does not support -std=c++20
RECURSIVE ClangCxx20Rejects(_, _, _)
ClangCxx20Rejects(pm, r, names) ==
    IF Len(names) = 0 THEN "False"
    ELSE LET c == PyAnd(row_check_name(pm, r, HOST_COMPILER, "==", Head(names)),
                        row_check_version(pm, r, HOST_COMPILER, "<=", <<9>>))
         IN  IF c = "False" THEN ClangCxx20Rejects(pm, r, Tail(names)) ELSE c

software_dependency_filter(pm, r) ==
    \* GCC 6 and below is not available on Ubuntu 20.04
    RejectIf(PyAnd(row_check_version(pm, r, UBUNTU, "==", <<20, 4>>),
             PyAnd(row_check_name(pm, r, HOST_COMPILER, "==", GCC),
                   IntCompare(pm, r, HOST_COMPILER, "<=", 6))),
    \* GCC 9 and older does not support -std=c++20
    RejectIf(PyAnd(row_check_version(pm, r, CXX_STANDARD, ">=", <<20>>),
             PyAnd(row_check_name(pm, r, HOST_COMPILER, "==", GCC),
                   row_check_version(pm, r, HOST_COMPILER, "<=", <<9>>))),
    \* nvcc and the C++ standard
    RejectIf(PyAnd(row_check_name(pm, r, DEVICE_COMPILER, "==", NVCC),
             PyAnd(is_in_row(pm, r, CXX_STANDARD),
                   NvccCxxRejects(pm, r, 1))),
    \* clang 11 and 12 are not available in the Ubuntu 18.04 ppa
    RejectIf(PyAnd(row_check_version(pm, r, UBUNTU, "==", <<18, 4>>),
             PyAnd(PyOr(row_check_name(pm, r, HOST_COMPILER, "==", CLANG),
                        row_check_name(pm, r, HOST_COMPILER, "==", CLANG_CUDA)),
                   PyOr(row_check_version(pm, r, HOST_COMPILER, "==", <<11>>),
                        row_check_version(pm, r, HOST_COMPILER, "==", <<12>>)))),
    \* Clang 9 and older does not support -std=c++20
    RejectIf(PyAnd(row_check_version(pm, r, CXX_STANDARD, ">=", <<20>>),
                   ClangCxx20Rejects(pm, r, <<CLANG, CLANG_CUDA>>)),
    \* ubuntu 18.04 containers are not available for CUDA 11.0 and later
    RejectIf(PyAnd(row_check_version(pm, r, UBUNTU, "==", <<18, 4>>),
             PyAnd(BackendEnabled(pm, r, ALPAKA_ACC_GPU_CUDA_ENABLE),
                   row_check_backend_version(pm, r, ALPAKA_ACC_GPU_CUDA_ENABLE,
                                             ">=", <<11, 0>>))),
    \* ubuntu 20.04 containers are not available for CUDA 10.2 and before
    RejectIf(PyAnd(row_check_version(pm, r, UBUNTU, "==", <<20, 4>>),
             PyAnd(BackendEnabled(pm, r, ALPAKA_ACC_GPU_CUDA_ENABLE),
                   row_check_backend_version(pm, r, ALPAKA_ACC_GPU_CUDA_ENABLE,
                                             "<", <<11, 0>>))),
    \* all rocm images are Ubuntu 20.04 based
    RejectIf(PyAnd(row_check_version(pm, r, UBUNTU, "!=", <<20, 4>>),
             PyAnd(row_check_name(pm, r, DEVICE_COMPILER, "==", HIPCC),
                   BackendEnabled(pm, r, ALPAKA_ACC_GPU_HIP_ENABLE))),
    \* CMake 3.18 and clang-cuda
    RejectIf(PyAnd(row_check_name(pm, r, DEVICE_COMPILER, "==", CLANG_CUDA),
                   row_check_version(pm, r, CMAKE, "<", <<3, 19>>)),
    \* nvcc 11.0-11.3 + gcc 10 + Ubuntu 20.04
    RejectIf(PyAnd(row_check_name(pm, r, DEVICE_COMPILER, "==", NVCC),
             PyAnd(PyOr(row_check_version(pm, r, DEVICE_COMPILER, "==", <<11, 0>>),
                   PyOr(row_check_version(pm, r, DEVICE_COMPILER, "==", <<11, 1>>),
                   PyOr(row_check_version(pm, r, DEVICE_COMPILER, "==", <<11, 2>>),
                        row_check_version(pm, r, DEVICE_COMPILER, "==", <<11, 3>>)))),
             PyAnd(row_check_name(pm, r, HOST_COMPILER, "==", GCC),
             PyAnd(row_check_version(pm, r, HOST_COMPILER, "==", <<10>>),
                   row_check_version(pm, r, UBUNTU, "==", <<20, 4>>))))),
    "True"))))))))))

Filters == {"general_compiler_filter", "compiler_version_filter",
            "compiler_backend_filter", "software_dependency_filter"}

\* the filter function of that name, applied to a row
ApplyFilter(f, pm, r) ==
    CASE f = "general_compiler_filter" -> general_compiler_filter(pm, r)
      [] f = "compiler_version_filter" -> compiler_version_filter(pm, r)
      [] f = "compiler_backend_filter" -> compiler_backend_filter(pm, r)
      [] f = "software_dependency_filter" -> software_dependency_filter(pm, r)

\* the test helper: a and b and c and d
full_filter_chain(pm, r) ==
    PyAnd(general_compiler_filter(pm, r),
    PyAnd(compiler_version_filter(pm, r),
    PyAnd(compiler_backend_filter(pm, r),
          software_dependency_filter(pm, r))))

\* get_required_parameter() of the module of filter f
get_required_parameter(f) ==
    CASE f = "general_compiler_filter" -> <<HOST_COMPILER, DEVICE_COMPILER>>
      [] f = "compiler_version_filter" -> <<HOST_COMPILER, DEVICE_COMPILER>>
      [] f = "compiler_backend_filter" -> <<DEVICE_COMPILER, BACKENDS>>
      [] f = "software_dependency_filter" ->
            <<HOST_COMPILER, DEVICE_COMPILER, BACKENDS, UBUNTU, CMAKE, CXX_STANDARD>>

(***************************************************************************)
(* validate.py                                                             *)
(***************************************************************************)
Range(seq) == {seq[i] : i \in 1..Len(seq)}

\* the bindings of "for i, (param_name, param) in enumerate(parameters.items())"
OrderMap(order) ==
    [p \in Range(order) |-> (CHOOSE i \in 1..Len(order) : order[i] = p) - 1]

\* d after d[k] = own[k] for every key of own
DictUpdate(d, own) ==
    [k \in DOMAIN d \cup DOMAIN own |-> IF k \in DOMAIN own THEN own[k] ELSE d[k]]

\* the first n values of a parameter set given as key order and values
RowOf(order, vals, n) == [i \in 1..n |-> vals[order[i]]]

\* check_single_filter on the state st = [pm, shared, vmap]: the dict globals
\* created, whether validate's name param_map is bound to it, and validate's
\* own dict otherwise.  parameters is the dict with keys in `order`.
check_single_filter(st, f, order, vals) ==
    IF \E i \in 1..Len(get_required_parameter(f)) :
            get_required_parameter(f)[i] \notin Range(order)
    THEN [pm |-> st.pm, shared |-> st.shared, vmap |-> st.vmap, res |-> "False"]
    ELSE LET own == OrderMap(order)
             \* param_map[param_name] = i writes the dict validate's name is bound to
             pm1 == IF st.shared THEN DictUpdate(st.pm, own) ELSE st.pm
             vmap1 == IF st.shared THEN st.vmap ELSE DictUpdate(st.vmap, own)
             \* the filter and util read the dict of globals
             res == ApplyFilter(f, pm1, RowOf(order, vals, Len(order)))
         IN  IF IsBool(res)
             \* param_map = {} binds validate's name to a new dict
             THEN [pm |-> pm1, shared |-> FALSE, vmap |-> EmptyDict, res |-> res]
             ELSE [pm |-> pm1, shared |-> st.shared, vmap |-> vmap1, res |-> res]

\* all_true += int(check_single_filter(...)), stopped by the first exception
RECURSIVE CheckFiltersFrom(_, _, _, _, _)
CheckFiltersFrom(st, fs, order, vals, all_true) ==
    IF Len(fs) = 0
    THEN [pm |-> st.pm, shared |-> st.shared, vmap |-> st.vmap,
          res |-> PyBool(all_true = 4)]
    ELSE LET s1 == check_single_filter(st, Head(fs), order, vals)
         IN  IF ~IsBool(s1.res) THEN s1
             ELSE CheckFiltersFrom(s1, Tail(fs), order, vals,
                                   all_true + (IF s1.res = "True" THEN 1 ELSE 0))

FilterSequence == <<"general_compiler_filter", "compiler_version_filter",
                    "compiler_backend_filter", "software_dependency_filter">>

check_filters(st, order, vals) == CheckFiltersFrom(st, FilterSequence, order, vals, 0)


(***************************************************************************)
(* versions.py                                                             *)
(***************************************************************************)
\* the back-end names of globals, as the sources name them
BACKENDS_LIST ==
    <<ALPAKA_ACC_CPU_B_SEQ_T_SEQ_ENABLE, "alpaka_ACC_CPU_B_SEQ_T_THREADS_ENABLE",
      "alpaka_ACC_CPU_B_TBB_T_SEQ_ENABLE", "alpaka_ACC_CPU_B_OMP2_T_SEQ_ENABLE",
      "alpaka_ACC_CPU_B_SEQ_T_OMP2_ENABLE", ALPAKA_ACC_GPU_CUDA_ENABLE,
      ALPAKA_ACC_GPU_HIP_ENABLE, ALPAKA_ACC_SYCL_ENABLE>>

\* <<a.lo>>, ..., <<a.hi>>
MinorRange(a, lo, hi) == [i \in 1..(hi - lo + 1) |-> <<a, lo + i - 1>>]

\* the dict versions when the module is loaded
VersionsDict ==
    [n \in {GCC, CLANG, NVCC, HIPCC, ICPX, UBUNTU, CMAKE, BOOST, CXX_STANDARD} |->
        CASE n = GCC -> [i \in 1..8 |-> <<i + 5>>]
          [] n = CLANG -> [i \in 1..12 |-> <<i + 5>>]
          [] n = NVCC -> MinorRange(10, 0, 2) \o MinorRange(11, 0, 8)
                            \o MinorRange(12, 0, 3)
          [] n = HIPCC -> MinorRange(5, 0, 7) \o <<<<6, 0>>>>
          [] n = ICPX -> <<<<2023, 1, 0>>, <<2023, 2, 0>>>>
          [] n = UBUNTU -> <<<<18, 4>>, <<20, 4>>>>
          [] n = CMAKE -> MinorRange(3, 18, 26)
          [] n = BOOST -> [i \in 1..9 |-> <<1, 73 + i, 0>>]
          [] n = CXX_STANDARD -> <<<<17>>, <<20>>>>]

\* d[k] = v on a dict
DictSet(d, k, v) == [n \in DOMAIN d \cup {k} |-> IF n = k THEN v ELSE d[n]]

RECURSIVE SetOnOff(_, _)
\* for backend_name in set(BACKENDS_LIST) - {CUDA, HIP}
SetOnOff(local_versions, names) ==
    IF names = {} THEN local_versions
    ELSE LET backend_name == CHOOSE n \in names : TRUE
         IN  SetOnOff(DictSet(local_versions, backend_name, <<ON_VER, OFF_VER>>),
                      names \ {backend_name})

\* the dict the lookup of is_supported_version reads
LocalVersions(vs) ==
    SetOnOff(
        DictSet(DictSet(DictSet(vs, CLANG_CUDA, vs[CLANG]),
                        ALPAKA_ACC_GPU_CUDA_ENABLE, <<OFF_VER>> \o vs[NVCC]),
                ALPAKA_ACC_GPU_HIP_ENABLE, <<OFF_VER>> \o vs[HIPCC]),
        Range(BACKENDS_LIST) \ {ALPAKA_ACC_GPU_CUDA_ENABLE, ALPAKA_ACC_GPU_HIP_ENABLE})

\* the entries written into versions itself, not into a copy
is_supported_version_without_copy(vs, name, version) ==
    IF name \notin DOMAIN vs \cup {CLANG_CUDA} \cup Range(BACKENDS_LIST)
    THEN [ret |-> "ValueError", versions |-> vs]
    ELSE LET local_versions == LocalVersions(vs)
         IN  [ret |-> PyBool(\E i \in 1..Len(local_versions[name]) :
                                parse(local_versions[name][i]) = parse(version)),
              versions |-> local_versions]

\* what the call returns or raises, and the dict versions it leaves
is_supported_version(vs, name, version) ==
    IF name \notin DOMAIN vs \cup {CLANG_CUDA} \cup Range(BACKENDS_LIST)
    THEN [ret |-> "ValueError", versions |-> vs]
    ELSE LET local_versions == LocalVersions(vs)
         IN  [ret |-> PyBool(\E i \in 1..Len(local_versions[name]) :
                                parse(local_versions[name][i]) = parse(version)),
              versions |-> vs]

(***************************************************************************)
(* util.py: the functions on the job list                                  *)
(***************************************************************************)
\* A job name is a sequence of characters.  A regex is the set of its
\* alternatives, each a literal the name has to start with (re.match anchors at
\* the start of the name): "^N|^G" is {<<"N">>, <<"G">>}, "" is {<< >>}.
EmptyRegex == {<< >>}

\* compiled_regex.match(name)
Match(regex, name) ==
    \E p \in regex : Len(p) <= Len(name) /\ SubSeq(name, 1, Len(p)) = p

\* list(job.keys())[0]
JobName(job) == CHOOSE k \in DOMAIN job : TRUE

\* list.insert(position, x)
PyInsert(lst, position, x) ==
    LET n == Len(lst)
        at == IF position < 0
              THEN (IF n + position < 0 THEN 0 ELSE n + position)
              ELSE (IF position > n THEN n ELSE position)
    IN  SubSeq(lst, 1, at) \o <<x>> \o SubSeq(lst, at + 1, n)

\* list.pop(index): the list left, index counted from 0
PyPop(lst, index) == SubSeq(lst, 1, index) \o SubSeq(lst, index + 2, Len(lst))

\* some item of searched_job is an item of job_combination
MatchesSome(job_combination, searched_job) ==
    \E attribute_name \in DOMAIN searched_job :
        /\ attribute_name \in DOMAIN job_combination
        /\ job_combination[attribute_name] = searched_job[attribute_name]

\* every item of searched_job is an item of job_combination
MatchesAll(job_combination, searched_job) ==
    \A attribute_name \in DOMAIN searched_job :
        /\ attribute_name \in DOMAIN job_combination
        /\ job_combination[attribute_name] = searched_job[attribute_name]

\* the found job and the job at position change places
search_and_move_job_swapping(jm, searched_job, position) ==
    IF DOMAIN searched_job = {}
    THEN [res |-> "IndexError", job_matrix |-> jm]
    ELSE IF \E i \in 1..Len(jm) : MatchesAll(jm[i], searched_job)
         THEN LET index == CHOOSE i \in 1..Len(jm) :
                              /\ MatchesAll(jm[i], searched_job)
                              /\ \A j \in 1..(i - 1) : ~MatchesAll(jm[j], searched_job)
                  target == IF position + 1 \in 1..Len(jm) THEN position + 1 ELSE index
              IN  [res |-> "True",
                   job_matrix |-> [j \in 1..Len(jm) |->
                                     IF j = target THEN jm[index]
                                     ELSE IF j = index THEN jm[target] ELSE jm[j]]]
         ELSE [res |-> "False", job_matrix |-> jm]

\* the result and the job_matrix the call leaves
search_and_move_job(jm, searched_job, position) ==
    IF DOMAIN searched_job = {}
    THEN [res |-> "IndexError", job_matrix |-> jm]
    ELSE IF \E i \in 1..Len(jm) : MatchesAll(jm[i], searched_job)
         THEN LET index == CHOOSE i \in 1..Len(jm) :
                              /\ MatchesAll(jm[i], searched_job)
                              /\ \A j \in 1..(i - 1) : ~MatchesAll(jm[j], searched_job)
              IN  [res |-> "True",
                   job_matrix |-> PyInsert(PyPop(jm, index - 1), position, jm[index])]
         ELSE [res |-> "False", job_matrix |-> jm]

RECURSIVE FilterFrom(_, _, _, _)
\* for job in job_matrix: append the matching job
FilterFrom(jm, regex, i, filtered_jobs) ==
    IF i > Len(jm) THEN filtered_jobs
    ELSE FilterFrom(jm, regex, i + 1,
                    IF Match(regex, JobName(jm[i]))
                    THEN Append(filtered_jobs, jm[i]) ELSE filtered_jobs)

\* every job appended, whatever its name
filter_job_list_unfiltered(jm, job_name_regex) == FilterFrom(jm, EmptyRegex, 1, << >>)

filter_job_list(jm, job_name_regex) == FilterFrom(jm, job_name_regex, 1, << >>)

RECURSIVE ReorderFrom(_, _, _, _)
\* for index, job in enumerate(job_matrix): insert at 0 or append
ReorderFrom(jm, index_list, i, new_job_list) ==
    IF i > Len(jm) THEN new_job_list
    ELSE ReorderFrom(jm, index_list, i + 1,
                     IF i \in index_list
                     THEN PyInsert(new_job_list, 0, jm[i])
                     ELSE Append(new_job_list, jm[i]))

reorder_job_list_single_regex(jm, job_name_regex) ==
    ReorderFrom(jm, {i \in 1..Len(jm) : Match(job_name_regex, JobName(jm[i]))},
                1, << >>)

\* A job_name_regex string of several regexes is a sequence of tokens: a regex,
\* or the blank that separates two of them.
Blank == {}

RECURSIVE StripLeft(_)
StripLeft(str) ==
    IF str # << >> /\ Head(str) = Blank THEN StripLeft(Tail(str)) ELSE str

RECURSIVE StripRight(_)
StripRight(str) ==
    IF str # << >> /\ str[Len(str)] = Blank
    THEN StripRight(SubSeq(str, 1, Len(str) - 1)) ELSE str

\* str.strip()
Strip(str) == StripRight(StripLeft(str))

RECURSIVE SplitFrom(_, _, _, _)
\* str.split(" "): a blank ends the current field, which is "" when empty
SplitFrom(str, i, fields, current) ==
    IF i > Len(str) THEN Append(fields, current)
    ELSE IF str[i] = Blank
         THEN SplitFrom(str, i + 1, Append(fields, current), EmptyRegex)
         ELSE SplitFrom(str, i + 1, fields, str[i])

Split(str) == SplitFrom(str, 1, << >>, EmptyRegex)

\* list.reverse()
Reverse(lst) == [i \in 1..Len(lst) |-> lst[Len(lst) + 1 - i]]

RECURSIVE ReorderAll(_, _, _)
\* for regex in ordering_list
ReorderAll(tmp_job_matrix, ordering_list, i) ==
    IF i > Len(ordering_list) THEN tmp_job_matrix
    ELSE ReorderAll(reorder_job_list_single_regex(tmp_job_matrix, ordering_list[i]),
                    ordering_list, i + 1)

\* the regexes applied in the order they are given
reorder_job_list_unreversed(jm, job_name_regex) ==
    ReorderAll(jm, Split(Strip(job_name_regex)), 1)

reorder_job_list(jm, job_name_regex) ==
    ReorderAll(jm, Reverse(Split(Strip(job_name_regex))), 1)

(***************************************************************************)
(* Inputs                                                                  *)
(***************************************************************************)
MaxHostVersion == 18   \* host compiler versions 4 .. MaxHostVersion
MaxCudaMajor == 12     \* nvcc versions 10.0 .. MaxCudaMajor.MaxCudaMinor
MaxCudaMinor == 8
MaxBackends == 3       \* longest backend list

Parameters ==
    {HOST_COMPILER, DEVICE_COMPILER, BACKENDS, UBUNTU, CMAKE, BOOST, CXX_STANDARD}

\* a parameter set: one value for every parameter
Values(h, d, b, cxx, u, cm) ==
    [p \in Parameters |->
        CASE p = HOST_COMPILER -> h
          [] p = DEVICE_COMPILER -> d
          [] p = BACKENDS -> b
          [] p = CXX_STANDARD -> cxx
          [] p = UBUNTU -> u
          [] p = CMAKE -> cm
          [] p = BOOST -> Tup(BOOST, <<1, 78, 0>>)]

NoBackends == Lst(<< >>)
Cxx17 == Tup(CXX_STANDARD, <<17>>)
Ubuntu2004 == Tup(UBUNTU, <<20, 4>>)
Ubuntu1804 == Tup(UBUNTU, <<18, 4>>)
CMake322 == Tup(CMAKE, <<3, 22>>)

\* a parameter set given by its compilers and backends alone
Compilers(h, d, b) == Values(h, d, b, Cxx17, Ubuntu2004, CMake322)

HostVersions == {<<n>> : n \in 4..MaxHostVersion} \cup {<<12, 1>>}

NvccVersions ==
    {<<a, b>> : a \in 10..MaxCudaMajor, b \in 0..MaxCudaMinor}
        \cup {<<9, 2>>, <<42, 0>>}

\* every pair of compiler names, the version left at "0" as in the name tests
NameValues ==
    {Compilers(Tup(h, <<0>>), Tup(d, <<0>>), NoBackends) :
        h \in known_compiler, d \in known_compiler}

\* gcc and clang as host compiler of nvcc
NvccHostValues ==
    {Compilers(Tup(h, hv), Tup(NVCC, nv), NoBackends) :
        h \in {GCC, CLANG}, hv \in HostVersions, nv \in NvccVersions}

\* one compiler as host and device compiler, in equal or different versions
SameCompilerVersions == {<<0>>, <<13>>, <<14>>, <<14, 0>>, <<99>>}

SameCompilerValues ==
    {Compilers(Tup(c, hv), Tup(c, dv), NoBackends) :
        c \in known_compiler \ {NVCC},
        hv \in SameCompilerVersions, dv \in SameCompilerVersions}

BackendEntries ==
    {Tup(ALPAKA_ACC_GPU_CUDA_ENABLE, v) : v \in {OFF_VER, <<11, 2>>, <<11, 2, 0>>, <<12, 0>>}}
        \cup {Tup(ALPAKA_ACC_GPU_HIP_ENABLE, v) : v \in {OFF_VER, <<5, 5>>}}
        \cup {Tup(ALPAKA_ACC_SYCL_ENABLE, ON_VER),
              Tup(ALPAKA_ACC_CPU_B_SEQ_T_SEQ_ENABLE, ON_VER)}

\* a backend is listed once
BackendLists ==
    UNION {{b \in [1..n -> BackendEntries] :
                \A i \in 1..n : \A j \in 1..n : i # j => b[i][NAME] # b[j][NAME]} :
           n \in 0..MaxBackends}

\* (host compiler, device compiler) of the backend rules
BackendCompilers ==
    {<<Tup(GCC, <<9>>), Tup(NVCC, <<11, 2>>)>>,
     <<Tup(GCC, <<9>>), Tup(NVCC, <<12, 0>>)>>,
     <<Tup(GCC, <<9>>), Tup(NVCC, <<0>>)>>,
     <<Tup(HIPCC, <<5, 5>>), Tup(HIPCC, <<5, 5>>)>>,
     <<Tup(HIPCC, <<0>>), Tup(HIPCC, <<0>>)>>,
     <<Tup(CLANG_CUDA, <<14>>), Tup(CLANG_CUDA, <<14>>)>>,
     <<Tup(GCC, <<9>>), Tup(GCC, <<9>>)>>,
     <<Tup(CLANG, <<14>>), Tup(CLANG, <<14>>)>>,
     <<Tup(ICPX, <<2023, 1, 0>>), Tup(ICPX, <<2023, 1, 0>>)>>}

BackendValues ==
    {Compilers(c[1], c[2], Lst(b)) : c \in BackendCompilers, b \in BackendLists}

\* clang-cuda of every version with the CUDA back-end of every SDK version
ClangCudaVersions == HostVersions \cup {<<30>>}

CudaSdkVersions == NvccVersions \cup {<<9, 0>>, <<9, 1>>, <<30, 0>>}

ClangCudaSdkValues ==
    {Compilers(Tup(CLANG_CUDA, c), Tup(CLANG_CUDA, c),
               Lst(<<Tup(ALPAKA_ACC_GPU_CUDA_ENABLE, s)>>)) :
        c \in ClangCudaVersions, s \in CudaSdkVersions}

\* rows of the accessor tests: gcc 9 with every backend list
AccessorValues ==
    {Compilers(Tup(GCC, <<9>>), Tup(GCC, <<9>>), Lst(b)) : b \in BackendLists}

BackendNames ==
    {ALPAKA_ACC_GPU_CUDA_ENABLE, ALPAKA_ACC_GPU_HIP_ENABLE, ALPAKA_ACC_SYCL_ENABLE,
     ALPAKA_ACC_CPU_B_SEQ_T_SEQ_ENABLE}

ComparedVersions == {OFF_VER, <<0>>, <<11, 2>>, <<12>>}

DependencyHosts ==
    {Tup(GCC, <<6>>), Tup(GCC, <<9>>), Tup(GCC, <<10>>), Tup(GCC, <<10, 3>>),
     Tup(GCC, <<13>>), Tup(CLANG, <<9>>), Tup(CLANG, <<11>>), Tup(CLANG, <<17>>)}

DependencyNvcc ==
    {<<10, 2>>, <<11, 0>>, <<11, 8>>, <<12, 0>>, <<12, 1>>, <<12, 2>>, <<12, 3>>,
     <<42, 0>>}

DependencyCxx == {<<14>>, <<17>>, <<17, 0>>, <<20>>, <<23>>}

\* host compilers with the C++ standard, Ubuntu and CMake versions
DependencyValues ==
    {Values(h, d, NoBackends, Tup(CXX_STANDARD, cxx), u, Tup(CMAKE, cm)) :
        h \in DependencyHosts,
        d \in {Tup(NVCC, nv) : nv \in DependencyNvcc},
        cxx \in DependencyCxx, u \in {Ubuntu1804, Ubuntu2004},
        cm \in {<<3, 18>>, <<3, 22>>}}
    \cup
    {Values(h, h, NoBackends, Tup(CXX_STANDARD, cxx), u, Tup(CMAKE, cm)) :
        h \in DependencyHosts,
        cxx \in DependencyCxx, u \in {Ubuntu1804, Ubuntu2004},
        cm \in {<<3, 18>>, <<3, 22>>}}

FilterValues ==
    NameValues \cup NvccHostValues \cup SameCompilerValues
        \cup BackendValues \cup ClangCudaSdkValues \cup DependencyValues

\* parameter orders the tests of the filters configure
FilterOrders ==
    {<<HOST_COMPILER, DEVICE_COMPILER, BACKENDS, CXX_STANDARD, UBUNTU, CMAKE>>,
     <<DEVICE_COMPILER, HOST_COMPILER>>,
     <<DEVICE_COMPILER, CXX_STANDARD, HOST_COMPILER, BACKENDS, UBUNTU>>}

\* the full and the partial rows of a parameter order
RowsOf(order, values) ==
    {RowOf(order, v, n) : v \in values, n \in 0..Len(order)}

(***************************************************************************)
(* Actions                                                                 *)
(***************************************************************************)
Called(f, r, a, res) ==
    /\ pc' = "returned"
    /\ fn' = f
    /\ row' = r
    /\ arg' = a
    /\ result' = res

\* a filter function called on a row, as the generator and the tests do
CallFilter(f, r) ==
    /\ pc = "idle"
    /\ Called(f, r, << >>, ApplyFilter(f, param_map, r))
    /\ UNCHANGED <<param_map, validate_shared, validate_map, job_matrix, parameters, versions>>

\* the caller goes on
Return ==
    /\ pc = "returned"
    /\ pc' = "idle"
    /\ fn' = "none"
    /\ row' = << >>
    /\ arg' = << >>
    /\ result' = "None"
    /\ UNCHANGED <<param_map, validate_shared, validate_map, job_matrix, parameters, versions>>

(***************************************************************************)
(* The filter functions under a position map configured once               *)
(***************************************************************************)
InitFilters ==
    /\ param_map \in {OrderMap(o) : o \in FilterOrders}
    /\ validate_shared = TRUE
    /\ validate_map = EmptyDict
    /\ pc = "idle"
    /\ fn = "none"
    /\ row = << >>
    /\ arg = << >>
    /\ result = "None"
    /\ job_matrix = << >>
    /\ parameters = Undefined
    /\ versions = VersionsDict

\* the order param_map was configured with
ConfiguredOrder == CHOOSE o \in FilterOrders : OrderMap(o) = param_map


(***************************************************************************)
(* The process: the position map as the tests and the validation tool      *)
(* leave it from one call to the next                                      *)
(***************************************************************************)
\* the orders the setUp methods of the tests write into param_map
SetUpOrders ==
    {<<HOST_COMPILER, DEVICE_COMPILER>>,
     <<HOST_COMPILER, DEVICE_COMPILER, BACKENDS>>,
     <<DEVICE_COMPILER, HOST_COMPILER>>}

\* the key orders of the dict main() builds from the command line
ParameterOrders ==
    {<<HOST_COMPILER, DEVICE_COMPILER>>,
     <<HOST_COMPILER, DEVICE_COMPILER, BACKENDS>>,
     <<HOST_COMPILER, DEVICE_COMPILER, BACKENDS, UBUNTU, CMAKE, CXX_STANDARD>>,
     <<HOST_COMPILER, DEVICE_COMPILER, BACKENDS, UBUNTU, CMAKE, BOOST, CXX_STANDARD>>}

\* the key orders of the OrderedDict a caller hands to check_single_filter
SingleFilterOrders == ParameterOrders \cup {<<DEVICE_COMPILER, HOST_COMPILER>>}

CudaBackend(v) ==
    Lst(<<Tup(ALPAKA_ACC_CPU_B_SEQ_T_SEQ_ENABLE, ON_VER), Tup(ALPAKA_ACC_GPU_CUDA_ENABLE, v)>>)

ProcessValues ==
    {Compilers(Tup(GCC, <<9>>), Tup(GCC, <<9>>),
               Lst(<<Tup(ALPAKA_ACC_CPU_B_SEQ_T_SEQ_ENABLE, ON_VER)>>)),
     Compilers(Tup(GCC, <<10, 3>>), Tup(GCC, <<10, 3>>),
               Lst(<<Tup(ALPAKA_ACC_CPU_B_SEQ_T_SEQ_ENABLE, ON_VER)>>)),
     Compilers(Tup(GCC, <<10>>), Tup(NVCC, <<12, 0>>), CudaBackend(<<12, 0>>)),
     Compilers(Tup(GCC, <<13>>), Tup(NVCC, <<12, 0>>), CudaBackend(<<12, 0>>)),
     Compilers(Tup(NVCC, <<12, 0>>), Tup(NVCC, <<12, 0>>), CudaBackend(<<12, 0>>)),
     Values(Tup(GCC, <<10>>), Tup(NVCC, <<12, 0>>), CudaBackend(<<12, 0>>),
            Tup(CXX_STANDARD, <<20>>), Ubuntu2004, CMake322)}

\* the orders of rows param_map is configured for
ConformingOrders(pm) ==
    {o \in SetUpOrders \cup ParameterOrders :
        \A i \in 1..Len(o) : o[i] \in DOMAIN pm /\ pm[o[i]] = i - 1}

\* the rows a caller passes: the empty row, and the full and partial rows of
\* the orders param_map is configured for
ProcessRows(pm) ==
    {<< >>} \cup UNION {RowsOf(o, ProcessValues) : o \in ConformingOrders(pm)}

AccessorColumns == {HOST_COMPILER, BACKENDS, UBUNTU}
AccessorBackends == {ALPAKA_ACC_GPU_CUDA_ENABLE, ALPAKA_ACC_GPU_HIP_ENABLE}
AccessorVersions == {OFF_VER, <<12, 0>>}

\* validate.py's view of the position map
ValidateState == [pm |-> param_map, shared |-> validate_shared, vmap |-> validate_map]

\* setUp of a test class, or the user's initialisation: param_map[p] = i
SetUp(order) ==
    /\ pc = "idle"
    /\ param_map' = DictUpdate(param_map, OrderMap(order))
    /\ UNCHANGED <<validate_shared, validate_map, pc, fn, row, arg, result, job_matrix, parameters, versions>>

CallIsInRow(r, name) ==
    /\ pc = "idle"
    /\ Called("is_in_row", r, <<name>>, is_in_row(param_map, r, name))
    /\ UNCHANGED <<param_map, validate_shared, validate_map, job_matrix, parameters, versions>>

CallRowCheckName(r, colum, opr, name) ==
    /\ pc = "idle"
    /\ Called("row_check_name", r, <<colum, opr, name>>,
              row_check_name(param_map, r, colum, opr, name))
    /\ UNCHANGED <<param_map, validate_shared, validate_map, job_matrix, parameters, versions>>

CallRowCheckVersion(r, colum, opr, version) ==
    /\ pc = "idle"
    /\ Called("row_check_version", r, <<colum, opr, version>>,
              row_check_version(param_map, r, colum, opr, version))
    /\ UNCHANGED <<param_map, validate_shared, validate_map, job_matrix, parameters, versions>>

CallBackendIsNotInRow(r, backend) ==
    /\ pc = "idle"
    /\ Called("backend_is_not_in_row", r, <<backend>>,
              backend_is_not_in_row(param_map, r, backend))
    /\ UNCHANGED <<param_map, validate_shared, validate_map, job_matrix, parameters, versions>>

CallRowCheckBackendVersion(r, backend, opr, version) ==
    /\ pc = "idle"
    /\ Called("row_check_backend_version", r, <<backend, opr, version>>,
              row_check_backend_version(param_map, r, backend, opr, version))
    /\ UNCHANGED <<param_map, validate_shared, validate_map, job_matrix, parameters, versions>>

\* the filter functions and the backend accessors under the configured order
NextFilters ==
    \/ /\ pc = "idle"
       /\ \E f \in Filters : \E r \in RowsOf(ConfiguredOrder, FilterValues) :
            CallFilter(f, r)
    \/ /\ pc = "idle"
       /\ \E r \in RowsOf(ConfiguredOrder, AccessorValues) : \E backend \in BackendNames :
            CallBackendIsNotInRow(r, backend)
    \/ /\ pc = "idle"
       /\ \E r \in RowsOf(ConfiguredOrder, AccessorValues) : \E backend \in BackendNames :
          \E opr \in Operators : \E version \in ComparedVersions :
            CallRowCheckBackendVersion(r, backend, opr, version)
    \/ Return

SpecFilters == InitFilters /\ [][NextFilters]_vars

\* the test helper full_filter_chain(row)
CallFullFilterChain(r) ==
    /\ pc = "idle"
    /\ Called("full_filter_chain", r, << >>, full_filter_chain(param_map, r))
    /\ UNCHANGED <<param_map, validate_shared, validate_map, job_matrix, parameters, versions>>

\* check_single_filter(filter, req_params, parameters) of the module of f
CallCheckSingleFilter(f, order, vals) ==
    /\ pc = "idle"
    /\ LET s == check_single_filter(ValidateState, f, order, vals)
       IN  /\ Called("check_single_filter", RowOf(order, vals, Len(order)),
                     <<f, order>>, s.res)
           /\ param_map' = s.pm
           /\ validate_shared' = s.shared
           /\ validate_map' = s.vmap
           /\ UNCHANGED <<job_matrix, parameters, versions>>

\* check_filters(parameters)
CallCheckFilters(order, vals) ==
    /\ pc = "idle"
    /\ LET s == check_filters(ValidateState, order, vals)
       IN  /\ Called("check_filters", RowOf(order, vals, Len(order)), <<order>>, s.res)
           /\ param_map' = s.pm
           /\ validate_shared' = s.shared
           /\ validate_map' = s.vmap
           /\ UNCHANGED <<job_matrix, parameters, versions>>

Init ==
    /\ param_map = EmptyDict
    /\ validate_shared = TRUE
    /\ validate_map = EmptyDict
    /\ pc = "idle"
    /\ fn = "none"
    /\ row = << >>
    /\ arg = << >>
    /\ result = "None"
    /\ job_matrix = << >>
    /\ parameters = Undefined
    /\ versions = VersionsDict

Next ==
    \/ /\ pc = "idle"
       /\ \E order \in SetUpOrders : SetUp(order)
    \/ /\ pc = "idle"
       /\ \E r \in ProcessRows(param_map) : \E name \in AccessorColumns :
            CallIsInRow(r, name)
    \/ /\ pc = "idle"
       /\ \E r \in ProcessRows(param_map) : \E colum \in AccessorColumns :
          \E opr \in {"==", "!="} : \E name \in {GCC, NVCC} :
            CallRowCheckName(r, colum, opr, name)
    \/ /\ pc = "idle"
       /\ \E r \in ProcessRows(param_map) : \E colum \in AccessorColumns :
          \E opr \in {"==", "<"} : \E version \in AccessorVersions :
            CallRowCheckVersion(r, colum, opr, version)
    \/ /\ pc = "idle"
       /\ \E r \in ProcessRows(param_map) : \E backend \in AccessorBackends :
            CallBackendIsNotInRow(r, backend)
    \/ /\ pc = "idle"
       /\ \E r \in ProcessRows(param_map) : \E backend \in AccessorBackends :
          \E opr \in {"==", "!="} : \E version \in AccessorVersions :
            CallRowCheckBackendVersion(r, backend, opr, version)
    \/ /\ pc = "idle"
       /\ \E f \in Filters : \E r \in ProcessRows(param_map) : CallFilter(f, r)
    \/ /\ pc = "idle"
       /\ \E r \in ProcessRows(param_map) : CallFullFilterChain(r)
    \/ /\ pc = "idle"
       /\ \E f \in Filters : \E order \in SingleFilterOrders : \E vals \in ProcessValues :
            CallCheckSingleFilter(f, order, vals)
    \/ /\ pc = "idle"
       /\ \E order \in ParameterOrders : \E vals \in ProcessValues :
            CallCheckFilters(order, vals)
    \/ Return

Spec == Init /\ [][Next]_vars

(***************************************************************************)
(* The job list functions called on the job list of a caller               *)
(***************************************************************************)
MaxJobs == 3      \* longest job list
MaxTokens == 5    \* longest job_name_regex string, in tokens

JobNames == {<<"N", "1">>, <<"N", "2">>, <<"G", "1">>, <<"C", "1">>}

\* a job of the YAML job matrix: {job name: job body}
Job(n) == [k \in {n} |-> EmptyDict]

NamedJobs == {Job(n) : n \in JobNames}

\* "^N", "^G", "^N1", "^N|^G"
Words == {{<<"N">>}, {<<"G">>}, {<<"N", "1">>}, {<<"N">>, <<"G">>}}

Regexes == Words \cup {EmptyRegex}

\* strings of tokens: two regexes are separated by at least one blank
RegexStrings ==
    UNION {{str \in [1..n -> Words \cup {Blank}] :
                \A i \in 1..(n - 1) : str[i] = Blank \/ str[i + 1] = Blank} :
           n \in 0..MaxTokens}

\* a job before it is named: {parameter name: (name, version)}
Combinations ==
    {[p \in {HOST_COMPILER, DEVICE_COMPILER} |->
        IF p = HOST_COMPILER THEN h ELSE d] :
        h \in {Tup(GCC, <<9>>), Tup(CLANG, <<14>>)},
        d \in {Tup(GCC, <<9>>), Tup(NVCC, <<12, 0>>)}}

SearchedJobs ==
    UNION {[ps -> {Tup(GCC, <<9>>), Tup(NVCC, <<12, 0>>)}] :
           ps \in SUBSET {HOST_COMPILER, DEVICE_COMPILER}}

Positions == (0 - 1)..MaxJobs

ListsOf(jobs) == UNION {[1..n -> jobs] : n \in 0..MaxJobs}

IsListOf(jm, jobs) == \A i \in 1..Len(jm) : jm[i] \in jobs

CallFilterJobList(job_name_regex) ==
    /\ pc = "idle"
    /\ Called("filter_job_list", << >>, <<job_matrix, job_name_regex>>,
              filter_job_list(job_matrix, job_name_regex))
    /\ UNCHANGED <<param_map, validate_shared, validate_map, job_matrix, parameters, versions>>

CallReorderJobListSingleRegex(job_name_regex) ==
    /\ pc = "idle"
    /\ Called("reorder_job_list_single_regex", << >>, <<job_matrix, job_name_regex>>,
              reorder_job_list_single_regex(job_matrix, job_name_regex))
    /\ UNCHANGED <<param_map, validate_shared, validate_map, job_matrix, parameters, versions>>

CallReorderJobList(job_name_regex) ==
    /\ pc = "idle"
    /\ Called("reorder_job_list", << >>, <<job_matrix, job_name_regex>>,
              reorder_job_list(job_matrix, job_name_regex))
    /\ UNCHANGED <<param_map, validate_shared, validate_map, job_matrix, parameters, versions>>

CallSearchAndMoveJob(searched_job, position) ==
    /\ pc = "idle"
    /\ LET s == search_and_move_job(job_matrix, searched_job, position)
       IN  /\ Called("search_and_move_job", << >>,
                     <<job_matrix, searched_job, position>>, s.res)
           /\ job_matrix' = s.job_matrix
    /\ UNCHANGED <<param_map, validate_shared, validate_map, parameters, versions>>

InitJobs ==
    /\ param_map = EmptyDict
    /\ validate_shared = TRUE
    /\ validate_map = EmptyDict
    /\ pc = "idle"
    /\ fn = "none"
    /\ row = << >>
    /\ arg = << >>
    /\ result = "None"
    /\ job_matrix \in ListsOf(NamedJobs) \cup ListsOf(Combinations)
    /\ parameters = Undefined
    /\ versions = VersionsDict

NextJobs ==
    \/ /\ pc = "idle"
       /\ IsListOf(job_matrix, NamedJobs)
       /\ \E job_name_regex \in Regexes : CallFilterJobList(job_name_regex)
    \/ /\ pc = "idle"
       /\ IsListOf(job_matrix, NamedJobs)
       /\ \E job_name_regex \in Regexes : CallReorderJobListSingleRegex(job_name_regex)
    \/ /\ pc = "idle"
       /\ IsListOf(job_matrix, NamedJobs)
       /\ \E job_name_regex \in RegexStrings : CallReorderJobList(job_name_regex)
    \/ /\ pc = "idle"
       /\ IsListOf(job_matrix, Combinations)
       /\ \E searched_job \in SearchedJobs : \E position \in Positions :
            CallSearchAndMoveJob(searched_job, position)
    \/ Return

SpecJobs == InitJobs /\ [][NextJobs]_vars

(***************************************************************************)
(* impl2.py: the pairwise generator and its control matrix                 *)
(***************************************************************************)
\* An OrderedDict is the sequence of its items, in the order of insertion.
Entry(k, v) == [key |-> k, val |-> v]

Keys(od) == [i \in 1..Len(od) |-> od[i].key]

HasKey(od, k) == \E i \in 1..Len(od) : od[i].key = k

\* od[k], for a key od holds
Get(od, k) == od[CHOOSE i \in 1..Len(od) : od[i].key = k].val

\* (name, Version) == (name, Version): versions compare as parsed
TupleEq(a, b) == a[NAME] = b[NAME] /\ parse(a[VERSION]) = parse(b[VERSION])

ExpectedResult(p1, v1, p2, v2) ==
    [v1_parameter_name |-> p1, v1_name |-> v1[NAME], v1_version |-> v1[VERSION],
     v2_parameter_name |-> p2, v2_name |-> v2[NAME], v2_version |-> v2[VERSION]]

\* the expected results appended for one pair of parameter names: for every
\* value of the first, every value of the second
loop_over_parameter_values(params, expectedResults, v1_parameter_name, v2_parameter_name) ==
    LET first == Get(params, v1_parameter_name)
        second == Get(params, v2_parameter_name)
    IN  expectedResults \o
            [i \in 1..(Len(first) * Len(second)) |->
                ExpectedResult(v1_parameter_name,
                               first[((i - 1) \div Len(second)) + 1],
                               v2_parameter_name,
                               second[((i - 1) % Len(second)) + 1])]

RECURSIVE ControlFrom(_, _, _, _)
\* for v1_index in range(number_of_keys):
\*     for v2_index in range(v1_index + 1, number_of_keys)
ControlFrom(params, v1_index, v2_index, expectedResults) ==
    IF v1_index > Len(params) THEN expectedResults
    ELSE IF v2_index > Len(params)
         THEN ControlFrom(params, v1_index + 1, v1_index + 2, expectedResults)
         ELSE ControlFrom(params, v1_index, v2_index + 1,
                          loop_over_parameter_values(params, expectedResults,
                                                     Keys(params)[v1_index],
                                                     Keys(params)[v2_index]))

generate_control_matrix(params) == ControlFrom(params, 1, 2, << >>)

RECURSIVE FindFrom(_, _, _)
\* for parameter in parameter_matrix: "True" at the first row holding both
\* values, "KeyError" at a row read for a key it does not hold
FindFrom(parameter_matrix, eRes, j) ==
    IF j > Len(parameter_matrix) THEN "False"
    ELSE LET parameter == parameter_matrix[j]
         IN  IF ~HasKey(parameter, eRes.v1_parameter_name) THEN "KeyError"
             ELSE IF ~TupleEq(Get(parameter, eRes.v1_parameter_name),
                              Tup(eRes.v1_name, eRes.v1_version))
                  THEN FindFrom(parameter_matrix, eRes, j + 1)
                  ELSE IF ~HasKey(parameter, eRes.v2_parameter_name) THEN "KeyError"
                       ELSE IF TupleEq(Get(parameter, eRes.v2_parameter_name),
                                       Tup(eRes.v2_name, eRes.v2_version))
                            THEN "True"
                            ELSE FindFrom(parameter_matrix, eRes, j + 1)

RECURSIVE CheckFrom(_, _, _, _, _)
\* for eRes in expectedResults: printed holds the results reported as not found
CheckFrom(parameter_matrix, expectedResults, i, all_right, printed) ==
    IF i > Len(expectedResults) THEN [ret |-> all_right, printed |-> printed]
    ELSE LET found == FindFrom(parameter_matrix, expectedResults[i], 1)
         IN  IF found = "KeyError" THEN [ret |-> "KeyError", printed |-> printed]
             ELSE IF found = "True"
                  THEN CheckFrom(parameter_matrix, expectedResults, i + 1,
                                 all_right, printed)
                  ELSE CheckFrom(parameter_matrix, expectedResults, i + 1,
                                 "False", Append(printed, expectedResults[i]))

\* the scan ends at the first expected result not found
RECURSIVE CheckFromStopping(_, _, _, _, _)
CheckFromStopping(parameter_matrix, expectedResults, i, all_right, printed) ==
    IF i > Len(expectedResults) THEN [ret |-> all_right, printed |-> printed]
    ELSE LET found == FindFrom(parameter_matrix, expectedResults[i], 1)
         IN  IF found = "KeyError" THEN [ret |-> "KeyError", printed |-> printed]
             ELSE IF found = "True"
                  THEN CheckFromStopping(parameter_matrix, expectedResults, i + 1,
                                         all_right, printed)
                  ELSE [ret |-> "False", printed |-> Append(printed, expectedResults[i])]

check_for_results_first_missing(parameter_matrix, expectedResults) ==
    CheckFromStopping(parameter_matrix, expectedResults, 1, "True", << >>)

check_for_results(parameter_matrix, expectedResults) ==
    CheckFrom(parameter_matrix, expectedResults, 1, "True", << >>)

\* no filter rules implemented yet
custom_filter(ordered_row) == "True"

\* FilterAdapter.__call__(row): the row keyed by param_map, handed to the filter
FilterAdapter(keys, filter_func, r) ==
    IF Len(r) > Len(keys) THEN "KeyError"
    ELSE custom_filter([i \in 1..Len(r) |-> Entry(keys[i], r[i])])

\* get_matrix(parameter, filter_func) when AllPairs, called with the object
\* the module-level name parameters is bound to, yields the rows parameter_sets
get_matrix(parameter, filter_func, module_parameters, parameter_sets) ==
    LET keys == Keys(parameter)
    IN  IF ~module_parameters.defined THEN [raised |-> "NameError", rows |-> << >>]
        ELSE IF \E i \in 1..Len(parameter_sets) :
                    FilterAdapter(keys, filter_func, parameter_sets[i]) = "KeyError"
             THEN [raised |-> "KeyError", rows |-> << >>]
             ELSE [raised |-> "None",
                   rows |-> [i \in 1..Len(parameter_sets) |->
                                [j \in 1..Len(parameter_sets[i]) |->
                                    Entry(keys[j], parameter_sets[i][j])]]]

MaxRows == 4    \* longest matrix

\* the value lists of the parameters, as get_parameters() gives them
ValueLists ==
    [p \in {HOST_COMPILER, DEVICE_COMPILER, CMAKE} |->
        CASE p = HOST_COMPILER -> <<Tup(GCC, <<9>>), Tup(CLANG, <<13>>)>>
          [] p = DEVICE_COMPILER -> <<Tup(GCC, <<9>>), Tup(NVCC, <<11, 2>>)>>
          [] p = CMAKE -> <<Tup(CMAKE, <<3, 22>>)>>]

KeyLists ==
    {<<HOST_COMPILER, DEVICE_COMPILER>>, <<DEVICE_COMPILER, CMAKE>>,
     <<HOST_COMPILER, DEVICE_COMPILER, CMAKE>>}

\* the parameter dicts: for a list of keys, the first values of each value list
DomainSets ==
    UNION {{[i \in 1..Len(ks) |->
                Entry(ks[i], SubSeq(ValueLists[ks[i]], 1, n[i]))] :
            n \in {m \in [1..Len(ks) -> 1..2] :
                        \A i \in 1..Len(ks) : m[i] <= Len(ValueLists[ks[i]])}} :
           ks \in KeyLists}

\* the dicts get_parameters() may give: every value of every key
FullDomainSets ==
    {[i \in 1..Len(ks) |-> Entry(ks[i], ValueLists[ks[i]])] : ks \in KeyLists}

\* the value tuples over the value lists of params
ValueRows(params) ==
    {r \in [1..Len(params) -> UNION {Range(params[i].val) : i \in 1..Len(params)}] :
        \A i \in 1..Len(params) : r[i] \in Range(params[i].val)}

\* what AllPairs may yield for params: rows of one value per parameter, in
\* the order of the parameters
AllPairsOutcomes(params) ==
    UNION {[1..n -> ValueRows(params)] : n \in 1..MaxRows}

\* the matrices of rows keyed by the keys of params
MatricesOf(params) ==
    {[i \in 1..Len(m) |-> [j \in 1..Len(m[i]) |-> Entry(params[j].key, m[i][j])]] :
        m \in UNION {[1..n -> ValueRows(params)] : n \in 0..MaxRows}}

\* parameters = get_parameters(), at module level
CallGetParameters(params) ==
    /\ pc = "idle"
    /\ ~parameters.defined
    /\ parameters' = [defined |-> TRUE, value |-> params]
    /\ UNCHANGED <<param_map, validate_shared, validate_map, pc, fn, row, arg, result,
                   job_matrix, versions>>

CallGenerateControlMatrix(params) ==
    /\ pc = "idle"
    /\ Called("generate_control_matrix", << >>, <<params>>,
              generate_control_matrix(params))
    /\ UNCHANGED <<param_map, validate_shared, validate_map, job_matrix, parameters, versions>>

CallCheckForResults(parameter_matrix, params) ==
    /\ pc = "idle"
    /\ Called("check_for_results", << >>,
              <<parameter_matrix, generate_control_matrix(params), params>>,
              check_for_results(parameter_matrix, generate_control_matrix(params)))
    /\ UNCHANGED <<param_map, validate_shared, validate_map, job_matrix, parameters, versions>>

CallGetMatrix(parameter, parameter_sets) ==
    /\ pc = "idle"
    /\ Called("get_matrix", << >>, <<parameter, "custom_filter">>,
              get_matrix(parameter, "custom_filter", parameters, parameter_sets))
    /\ UNCHANGED <<param_map, validate_shared, validate_map, job_matrix, parameters, versions>>

InitPairwise ==
    /\ param_map = EmptyDict
    /\ validate_shared = TRUE
    /\ validate_map = EmptyDict
    /\ pc = "idle"
    /\ fn = "none"
    /\ row = << >>
    /\ arg = << >>
    /\ result = "None"
    /\ job_matrix = << >>
    /\ parameters = Undefined
    /\ versions = VersionsDict

NextPairwise ==
    \/ /\ pc = "idle"
       /\ \E params \in FullDomainSets : CallGetParameters(params)
    \/ /\ pc = "idle"
       /\ \E params \in DomainSets : CallGenerateControlMatrix(params)
    \/ /\ pc = "idle"
       /\ \E params \in DomainSets : \E parameter_matrix \in MatricesOf(params) :
            CallCheckForResults(parameter_matrix, params)
    \/ /\ pc = "idle"
       /\ \E parameter \in DomainSets :
          \E parameter_sets \in
                (IF parameters.defined THEN AllPairsOutcomes(parameters.value)
                 ELSE {<< >>}) :
            CallGetMatrix(parameter, parameter_sets)
    \/ Return

SpecPairwise == InitPairwise /\ [][NextPairwise]_vars

(***************************************************************************)
(* versions.py: is_supported_version called by a program                   *)
(***************************************************************************)
SoftwareNames ==
    DOMAIN VersionsDict \cup {CLANG_CUDA, "magic_compiler", "alpaka", ""}
        \cup Range(BACKENDS_LIST)

\* versions asked for: those of the dict, and some that are in no list
AskedVersions ==
    UNION {Range(VersionsDict[n]) : n \in DOMAIN VersionsDict}
        \cup {OFF_VER, ON_VER, <<0>>, <<1>>, <<2, 7>>, <<3, 0>>, <<9, 0>>, <<12, 0, 0>>,
              <<5, 5, 0>>, <<99>>}

CallIsSupportedVersion(name, version) ==
    /\ pc = "idle"
    /\ LET s == is_supported_version(versions, name, version)
       IN  /\ Called("is_supported_version", << >>, <<name, version>>, s.ret)
           /\ versions' = s.versions
    /\ UNCHANGED <<param_map, validate_shared, validate_map, job_matrix, parameters>>

InitVersions ==
    /\ param_map = EmptyDict
    /\ validate_shared = TRUE
    /\ validate_map = EmptyDict
    /\ pc = "idle"
    /\ fn = "none"
    /\ row = << >>
    /\ arg = << >>
    /\ result = "None"
    /\ job_matrix = << >>
    /\ parameters = Undefined
    /\ versions = VersionsDict

NextVersions ==
    \/ /\ pc = "idle"
       /\ \E name \in SoftwareNames : \E version \in AskedVersions :
            CallIsSupportedVersion(name, version)
    \/ Return

SpecVersions == InitVersions /\ [][NextVersions]_vars

(***************************************************************************)
(* distribute_to_waves of the package alpaka_job_coverage, as example.py   *)
(* calls it on the job list                                                *)
(***************************************************************************)
MaxWaveJobs == 23   \* longest job list handed to distribute_to_waves
MaxWaves == 10      \* largest number of waves asked for

\* the jobs lst[first + 1], ..., lst[first + size]
Chunk(lst, first, size) == SubSeq(lst, first + 1, first + size)

Min(a, b) == IF a < b THEN a ELSE b

\* waves of n jobs each, the last one holding what is left
distribute_to_waves_of_fixed_size(jobs, n) ==
    [i \in 1..((Len(jobs) + n - 1) \div n) |->
        Chunk(jobs, (i - 1) * n, Min(n, Len(jobs) - (i - 1) * n))]

\* balanced chunking: the list is cut into n consecutive waves, the first
\* len % n of them one job longer than the others; no empty wave is kept
distribute_to_waves(jobs, n) ==
    LET base == Len(jobs) \div n
        extra == Len(jobs) % n
        waves == Min(n, Len(jobs))
    IN  [i \in 1..waves |->
            Chunk(jobs, (i - 1) * base + Min(i - 1, extra),
                  base + (IF i <= extra THEN 1 ELSE 0))]

\* the job lists: jobs told apart by their number
WaveJobLists == {[i \in 1..k |-> i] : k \in 0..MaxWaveJobs}

CallDistributeToWaves(jobs, n) ==
    /\ pc = "idle"
    /\ Called("distribute_to_waves", << >>, <<jobs, n>>, distribute_to_waves(jobs, n))
    /\ UNCHANGED <<param_map, validate_shared, validate_map, job_matrix, parameters, versions>>

InitWaves ==
    /\ param_map = EmptyDict
    /\ validate_shared = TRUE
    /\ validate_map = EmptyDict
    /\ pc = "idle"
    /\ fn = "none"
    /\ row = << >>
    /\ arg = << >>
    /\ result = "None"
    /\ job_matrix = << >>
    /\ parameters = Undefined
    /\ versions = VersionsDict

NextWaves ==
    \/ /\ pc = "idle"
       /\ \E jobs \in WaveJobLists : \E n \in 1..MaxWaves : CallDistributeToWaves(jobs, n)
    \/ Return

SpecWaves == InitWaves /\ [][NextWaves]_vars

(***************************************************************************)
(* Properties                                                              *)
(***************************************************************************)
\* the call of f has returned or raised
Returned(f) == pc = "returned" /\ fn = f

\* parameter p has a position and the row of the call reaches it
InRow(p) == p \in DOMAIN param_map /\ param_map[p] < Len(row)

Host == Elem(param_map, row, HOST_COMPILER)
Device == Elem(param_map, row, DEVICE_COMPILER)
Backends == BackendItems(param_map, row)

\* the parameter set lacks a parameter the module of f requires
MissingRequired(f, order) ==
    \E i \in 1..Len(get_required_parameter(f)) :
        get_required_parameter(f)[i] \notin Range(order)

\* the module of f admits the row of a parameter set under the positions of
\* that set; a module that is skipped passes
ModuleAdmits(f, order, r) ==
    MissingRequired(f, order) \/ ApplyFilter(f, OrderMap(order), r) = "True"

Accessors == {"is_in_row", "row_check_name", "row_check_version",
              "backend_is_not_in_row", "row_check_backend_version"}

\* C1: check_filters(parameters) returns True iff each of the four filter
\* modules admits the row built from the parameters, and False as soon as one
\* of them rejects; the same holds for the test helper full_filter_chain(row).
C1_ChainAdmitsIffEveryModuleAdmits ==
    /\ Returned("check_filters") =>
            /\ result = "True" <=> \A f \in Filters : ModuleAdmits(f, arg[1], row)
            /\ (\E f \in Filters : ~ModuleAdmits(f, arg[1], row)) => result = "False"
    /\ Returned("full_filter_chain") =>
            (result = "True" <=> \A f \in Filters : ApplyFilter(f, param_map, row) = "True")

\* C1, the failing case: check_filters returns False for a parameter set of
\* host and device compiler that both modules it applies to admit.
C1_ChainRejectsAdmittedRow ==
    /\ Returned("check_filters")
    /\ arg[1] = <<HOST_COMPILER, DEVICE_COMPILER>>
    /\ \A f \in Filters : ModuleAdmits(f, arg[1], row)
    /\ result = "False"

\* C2: a module whose required parameters are not all in the parameter set is
\* skipped and counts as passed: check_single_filter reports no rejection for
\* it, and check_filters does not return False when every module that is not
\* skipped admits the row.
C2_SkippedModulePasses ==
    /\ Returned("check_single_filter") /\ MissingRequired(arg[1], arg[2]) =>
            result # "False"
    /\ (/\ Returned("check_filters")
        /\ \E f \in Filters : MissingRequired(f, arg[1])
        /\ \A f \in Filters : ModuleAdmits(f, arg[1], row)) =>
            result # "False"

\* C2, the failing case: check_single_filter returns False for the back-end
\* module when the parameter set holds no backends.
C2_SkippedModuleReportedFalse ==
    /\ Returned("check_single_filter")
    /\ arg[1] = "compiler_backend_filter"
    /\ BACKENDS \notin Range(arg[2])
    /\ result = "False"

\* C3: the row accessors return a boolean and never raise, for every row and
\* every parameter name, also when param_map holds no position for the name.
C3_AccessorsNeverRaise ==
    pc = "returned" /\ fn \in Accessors => IsBool(result)

\* C3, the failing case: after a set-up of host and device compiler, a lookup
\* of Ubuntu in a row of these two raises KeyError.
C3_UnboundParameterRaises ==
    /\ Returned("row_check_version")
    /\ DOMAIN param_map = {HOST_COMPILER, DEVICE_COMPILER}
    /\ Len(row) = 2
    /\ arg[1] = UBUNTU
    /\ result = "KeyError"

\* C4: for rows of parseable dotted versions each of the four filter functions
\* returns True or False and never raises (every parameter the filters look up
\* has a position).
C4_FiltersNeverRaise ==
    (/\ pc = "returned"
     /\ fn \in Filters
     /\ Range(get_required_parameter("software_dependency_filter")) \subseteq DOMAIN param_map)
        => IsBool(result)

\* C4, the failing case: gcc 10.3 as host compiler with Ubuntu 20.04 makes
\* software_dependency_filter raise ValueError.
C4_DottedGccVersionRaises ==
    /\ Returned("software_dependency_filter")
    /\ InRow(HOST_COMPILER) /\ InRow(UBUNTU)
    /\ Host = Tup(GCC, <<10, 3>>)
    /\ Elem(param_map, row, UBUNTU) = Ubuntu2004
    /\ result = "ValueError"

\* C5: compiler_backend_filter admits every row that holds the device
\* compiler and is shorter than the position of the backends, whatever the
\* device compiler is.
C5_AbsentBackendsAdmitted ==
    (/\ Returned("compiler_backend_filter")
     /\ InRow(DEVICE_COMPILER)
     /\ BACKENDS \in DOMAIN param_map /\ ~InRow(BACKENDS))
        => result = "True"

\* C5, the failing case: the row (gcc, 9) + (nvcc, 11.2) without backends is
\* rejected by compiler_backend_filter.
C5_NvccWithoutBackendsRejected ==
    /\ Returned("compiler_backend_filter")
    /\ row = <<Tup(GCC, <<9>>), Tup(NVCC, <<11, 2>>)>>
    /\ param_map[HOST_COMPILER] = 0 /\ param_map[DEVICE_COMPILER] = 1
    /\ BACKENDS \in DOMAIN param_map
    /\ result = "False"

\* C6: general_compiler_filter admits a row with host and device compiler iff
\* the host compiler is not nvcc and either the device compiler is nvcc and
\* the host compiler is gcc or clang, or the device compiler is not nvcc and
\* both names are the same; it admits a row with the host compiler alone iff
\* that compiler is not nvcc.
C6_NameFilterAdmitsExactly ==
    (Returned("general_compiler_filter") /\ InRow(HOST_COMPILER)) =>
        /\ IsBool(result)
        /\ result = "True" <=>
            IF InRow(DEVICE_COMPILER)
            THEN /\ Host[NAME] # NVCC
                 /\ \/ Device[NAME] = NVCC /\ Host[NAME] \in {GCC, CLANG}
                    \/ Device[NAME] # NVCC /\ Host[NAME] = Device[NAME]
            ELSE Host[NAME] # NVCC

\* C6, reached: nvcc as device compiler of hipcc is rejected
C6_NvccWithHipccHostRejected ==
    /\ Returned("general_compiler_filter")
    /\ InRow(HOST_COMPILER) /\ InRow(DEVICE_COMPILER)
    /\ Host[NAME] = HIPCC /\ Device[NAME] = NVCC
    /\ result = "False"

\* the only other rule of compiler_version_filter for a device compiler that
\* is not nvcc: clang-cuda older than 14
OldClangCuda == Device[NAME] = CLANG_CUDA /\ VersionCompare(Device[VERSION], "<", <<14>>)

\* C7: with host and device compiler in the row and a device compiler that is
\* not nvcc, compiler_version_filter rejects for a version mismatch exactly
\* when the two versions differ as dotted numeric versions ("14" and "14.0"
\* are equal); with nvcc as device compiler differing versions are not
\* rejected by this rule.
C7_VersionMismatchIsNumeric ==
    (Returned("compiler_version_filter") /\ InRow(HOST_COMPILER) /\ InRow(DEVICE_COMPILER)) =>
        /\ (Device[NAME] # NVCC /\ ~OldClangCuda) =>
                (result = "False" <=> VersionCompare(Host[VERSION], "!=", Device[VERSION]))
        /\ (Device[NAME] = NVCC /\ Host[NAME] \notin {GCC, CLANG}) => result = "True"

\* C7, the failing case: clang 14 with clang 14.0 is rejected
C7_EqualVersionsRejected ==
    /\ Returned("compiler_version_filter")
    /\ InRow(HOST_COMPILER) /\ InRow(DEVICE_COMPILER)
    /\ Host = Tup(CLANG, <<14>>) /\ Device = Tup(CLANG, <<14, 0>>)
    /\ result = "False"

\* the newest gcc an nvcc version supports, as the claim lists it
ClaimMaxGcc(v) ==
    IF VersionCompare(v, ">=", <<12, 0>>) THEN <<12>>
    ELSE IF VersionCompare(v, ">=", <<11, 4>>) THEN <<11>>
    ELSE IF VersionCompare(v, ">=", <<11, 1>>) THEN <<10>>
    ELSE IF VersionCompare(v, ">=", <<11, 0>>) THEN <<9>>
    ELSE IF VersionCompare(v, ">=", <<10, 1>>) THEN <<8>>
    ELSE <<7>>

\* the newest clang an nvcc version supports, as the claim lists it
ClaimMaxClang(v) ==
    IF VersionCompare(v, ">=", <<12, 3>>) THEN <<16>>
    ELSE IF VersionCompare(v, ">=", <<12, 1>>) THEN <<15>>
    ELSE IF VersionCompare(v, ">=", <<12, 0>>) THEN <<14>>
    ELSE IF VersionCompare(v, ">=", <<11, 6>>) THEN <<13>>
    ELSE IF VersionCompare(v, ">=", <<11, 4>>) THEN <<12>>
    ELSE IF VersionCompare(v, ">=", <<11, 2>>) THEN <<11>>
    ELSE IF VersionCompare(v, ">=", <<11, 1>>) THEN <<10>>
    ELSE IF VersionCompare(v, ">=", <<11, 0>>) THEN <<9>>
    ELSE IF VersionCompare(v, ">=", <<10, 1>>) THEN <<8>>
    ELSE <<6>>

\* C8: with nvcc of a version v in [10.0, 12.3] as device compiler,
\* compiler_version_filter rejects gcc g as host compiler iff g is newer than
\* the gcc listed for v or v >= 11.4 and g < 6, and rejects clang as host
\* compiler iff v is in [11.3, 11.5] or clang is newer than the clang listed
\* for v.
C8_NvccHostCompilerTables ==
    (/\ Returned("compiler_version_filter")
     /\ InRow(HOST_COMPILER) /\ InRow(DEVICE_COMPILER)
     /\ Device[NAME] = NVCC
     /\ VersionCompare(Device[VERSION], ">=", <<10, 0>>)
     /\ VersionCompare(Device[VERSION], "<=", <<12, 3>>)) =>
        /\ IsBool(result)
        /\ Host[NAME] = GCC =>
            (result = "False" <=>
                \/ VersionCompare(Host[VERSION], ">", ClaimMaxGcc(Device[VERSION]))
                \/ /\ VersionCompare(Device[VERSION], ">=", <<11, 4>>)
                   /\ VersionCompare(Host[VERSION], "<", <<6>>))
        /\ Host[NAME] = CLANG =>
            (result = "False" <=>
                \/ /\ VersionCompare(Device[VERSION], ">=", <<11, 3>>)
                   /\ VersionCompare(Device[VERSION], "<=", <<11, 5>>)
                \/ VersionCompare(Host[VERSION], ">", ClaimMaxClang(Device[VERSION])))

\* C8, reached: nvcc 11.4 rejects clang 9, which the table alone would admit
C8_UnsupportedClangRange ==
    /\ Returned("compiler_version_filter")
    /\ InRow(HOST_COMPILER) /\ InRow(DEVICE_COMPILER)
    /\ Host = Tup(CLANG, <<9>>) /\ Device = Tup(NVCC, <<11, 4>>)
    /\ result = "False"

\* C9: an nvcc newer than the newest entry of a table is not rejected by the
\* rule of that table: compiler_version_filter admits it with every gcc and
\* every clang as host compiler, and the rule of software_dependency_filter
\* for nvcc and the C++ standard rejects it with no C++ standard and does not
\* raise.
C9_FutureNvccNotRejected ==
    /\ (/\ Returned("compiler_version_filter")
        /\ InRow(HOST_COMPILER) /\ InRow(DEVICE_COMPILER)
        /\ Device[NAME] = NVCC
        /\ \/ /\ Host[NAME] = GCC
              /\ VersionCompare(Device[VERSION], ">", gcc_combinations[1][1])
           \/ /\ Host[NAME] = CLANG
              /\ VersionCompare(Device[VERSION], ">", clang_combinations[1][1]))
            => result = "True"
    /\ (/\ Returned("software_dependency_filter")
        /\ InRow(DEVICE_COMPILER) /\ InRow(CXX_STANDARD)
        /\ Device[NAME] = NVCC
        /\ VersionCompare(Device[VERSION], ">", nvcc_cxx_versions[Len(nvcc_cxx_versions)][1]))
            => /\ NvccCxxRejects(param_map, row, 1) = "False"
               /\ (InRow(HOST_COMPILER) => IntParsable(Host[VERSION])) => IsBool(result)

\* C9, reached: nvcc 42.0 is admitted with the newest gcc of the inputs
C9_FutureNvccWithNewGcc ==
    /\ Returned("compiler_version_filter")
    /\ InRow(HOST_COMPILER) /\ InRow(DEVICE_COMPILER)
    /\ Host = Tup(GCC, <<MaxHostVersion>>) /\ Device = Tup(NVCC, <<42, 0>>)
    /\ result = "True"

\* the list holds backend with a version equal to v
HasBackendVersion(backend, v) ==
    \E i \in 1..Len(Backends) :
        Backends[i][NAME] = backend /\ VersionCompare(Backends[i][VERSION], "==", v)

\* the list does not hold backend, or holds it set to OFF
BackendMissingOrOff(backend) ==
    \A i \in 1..Len(Backends) :
        Backends[i][NAME] = backend => Backends[i][VERSION] = OFF_VER

\* C10: for a row with the backends, compiler_backend_filter admits nvcc as
\* device compiler only if the list holds the CUDA back-end with a version
\* equal to the one of nvcc, and rejects when the CUDA back-end is missing or
\* OFF; likewise hipcc with the HIP back-end.
C10_DeviceCompilerNeedsItsBackend ==
    (Returned("compiler_backend_filter") /\ InRow(DEVICE_COMPILER) /\ InRow(BACKENDS)) =>
        /\ Device[NAME] = NVCC =>
            /\ result = "True" =>
                    HasBackendVersion(ALPAKA_ACC_GPU_CUDA_ENABLE, Device[VERSION])
            /\ BackendMissingOrOff(ALPAKA_ACC_GPU_CUDA_ENABLE) => result = "False"
        /\ Device[NAME] = HIPCC =>
            /\ result = "True" =>
                    HasBackendVersion(ALPAKA_ACC_GPU_HIP_ENABLE, Device[VERSION])
            /\ BackendMissingOrOff(ALPAKA_ACC_GPU_HIP_ENABLE) => result = "False"

\* C10, the failing case: nvcc of version 0 is admitted with the CUDA back-end
\* set to OFF
C10_DisabledCudaAdmitted ==
    /\ Returned("compiler_backend_filter")
    /\ InRow(DEVICE_COMPILER) /\ InRow(BACKENDS)
    /\ Device = Tup(NVCC, <<0>>)
    /\ Backends = <<Tup(ALPAKA_ACC_GPU_CUDA_ENABLE, OFF_VER)>>
    /\ result = "True"

\* C10 without the case of a compiler version that equals OFF: what the
\* filter does guarantee
C10_ExceptVersionZero ==
    (Returned("compiler_backend_filter") /\ InRow(DEVICE_COMPILER) /\ InRow(BACKENDS)) =>
        /\ Device[NAME] = NVCC =>
            /\ result = "True" =>
                    HasBackendVersion(ALPAKA_ACC_GPU_CUDA_ENABLE, Device[VERSION])
            /\ (/\ BackendMissingOrOff(ALPAKA_ACC_GPU_CUDA_ENABLE)
                /\ VersionCompare(Device[VERSION], "!=", OFF_VER)) => result = "False"
        /\ Device[NAME] = HIPCC =>
            /\ result = "True" =>
                    HasBackendVersion(ALPAKA_ACC_GPU_HIP_ENABLE, Device[VERSION])
            /\ (/\ BackendMissingOrOff(ALPAKA_ACC_GPU_HIP_ENABLE)
                /\ VersionCompare(Device[VERSION], "!=", OFF_VER)) => result = "False"

\* the list holds backend with a version different from OFF
BackendOn(backend) ==
    \E i \in 1..Len(Backends) :
        Backends[i][NAME] = backend /\ VersionCompare(Backends[i][VERSION], "!=", OFF_VER)

\* C11: a row that holds a device compiler and a backend list enabling both
\* the CUDA and the HIP back-end is rejected by compiler_backend_filter,
\* whatever the device compiler is.
C11_CudaAndHipRejected ==
    (/\ Returned("compiler_backend_filter")
     /\ InRow(DEVICE_COMPILER) /\ InRow(BACKENDS)
     /\ BackendOn(ALPAKA_ACC_GPU_CUDA_ENABLE)
     /\ BackendOn(ALPAKA_ACC_GPU_HIP_ENABLE)) => result = "False"

\* C11, reached: hipcc with its own HIP back-end and the CUDA back-end enabled
C11_HipccWithCudaRejected ==
    /\ Returned("compiler_backend_filter")
    /\ InRow(DEVICE_COMPILER) /\ InRow(BACKENDS)
    /\ Device = Tup(HIPCC, <<5, 5>>)
    /\ HasBackendVersion(ALPAKA_ACC_GPU_HIP_ENABLE, <<5, 5>>)
    /\ BackendOn(ALPAKA_ACC_GPU_CUDA_ENABLE)
    /\ result = "False"

\* the CUDA back-end entry of the list
CudaBackendVersion ==
    Backends[FirstBackend(Backends, ALPAKA_ACC_GPU_CUDA_ENABLE)][VERSION]

\* the first-match lookup of the claim: (clang bound, CUDA bound), oldest first
ClaimSdkTable ==
    << << <<7>>, <<9, 2>> >>, << <<8>>, <<10, 0>> >>, << <<10>>, <<10, 1>> >>,
       << <<12>>, <<11, 0>> >>, << <<13>>, <<11, 2>> >>, << <<16>>, <<11, 5>> >> >>

\* entries whose clang bound is at least c
ClaimSdkMatches(c) ==
    {i \in 1..Len(ClaimSdkTable) : VersionCompare(c, "<=", ClaimSdkTable[i][1])}

\* s exceeds the CUDA bound of the first entry whose clang bound is at least c
ClaimSdkExceeded(c, s) ==
    /\ ClaimSdkMatches(c) # {}
    /\ LET first == CHOOSE i \in ClaimSdkMatches(c) :
                        \A j \in ClaimSdkMatches(c) : i <= j
       IN  VersionCompare(s, ">", ClaimSdkTable[first][2])

\* C12: with clang-cuda of version c as device compiler and the CUDA back-end
\* enabled in version s (no HIP, no SYCL back-end), compiler_backend_filter
\* rejects exactly when s is newer than the CUDA bound of the first table entry
\* whose clang bound is at least c; for c newer than every entry every CUDA
\* version is admitted.  The walk over all entries equals the first-match lookup.
C12_ClangCudaSdkFirstMatch ==
    (/\ Returned("compiler_backend_filter")
     /\ InRow(DEVICE_COMPILER) /\ InRow(BACKENDS)
     /\ Device[NAME] = CLANG_CUDA
     /\ BackendOn(ALPAKA_ACC_GPU_CUDA_ENABLE)
     /\ ~BackendOn(ALPAKA_ACC_GPU_HIP_ENABLE)
     /\ ~BackendOn(ALPAKA_ACC_SYCL_ENABLE)) =>
        /\ result = "False" <=> ClaimSdkExceeded(Device[VERSION], CudaBackendVersion)
        /\ result = "True" <=> ~ClaimSdkExceeded(Device[VERSION], CudaBackendVersion)
        /\ ClangCudaSdkRejects(param_map, row, 1) =
                PyBool(ClaimSdkExceeded(Device[VERSION], CudaBackendVersion))

\* C12, reached: clang-cuda 9 falls under the entry of clang 10 and is rejected
\* with CUDA 10.2, which later entries would admit
C12_Clang9Cuda102Rejected ==
    /\ Returned("compiler_backend_filter")
    /\ InRow(DEVICE_COMPILER) /\ InRow(BACKENDS)
    /\ Device = Tup(CLANG_CUDA, <<9>>)
    /\ Backends = <<Tup(ALPAKA_ACC_GPU_CUDA_ENABLE, <<10, 2>>)>>
    /\ result = "False"

\* the row holds the device compiler and the C++ standard alone, as the rows
\* of TestNvccCxxStandard
NvccCxxRow ==
    /\ InRow(DEVICE_COMPILER) /\ InRow(CXX_STANDARD)
    /\ ~InRow(HOST_COMPILER) /\ ~InRow(BACKENDS) /\ ~InRow(UBUNTU) /\ ~InRow(CMAKE)
    /\ Device[NAME] = NVCC
    /\ IntParsable(Elem(param_map, row, CXX_STANDARD)[VERSION])

CxxStandard == Elem(param_map, row, CXX_STANDARD)[VERSION][1]

\* C13: with nvcc as device compiler and a C++ standard in the row,
\* software_dependency_filter admits the standards up to 17 only for nvcc 11.0
\* to 11.8, up to 20 only for nvcc 12.0 and 12.1, and every standard (23 and
\* later included) for nvcc 12.2 and newer.
C13_NvccCxxStandardLimits ==
    (Returned("software_dependency_filter") /\ NvccCxxRow) =>
        /\ (/\ VersionCompare(Device[VERSION], ">=", <<11, 0>>)
            /\ VersionCompare(Device[VERSION], "<=", <<11, 8>>))
                => (result = "True" <=> CxxStandard <= 17)
        /\ (/\ VersionCompare(Device[VERSION], ">=", <<12, 0>>)
            /\ VersionCompare(Device[VERSION], "<=", <<12, 1>>))
                => (result = "True" <=> CxxStandard <= 20)
        /\ VersionCompare(Device[VERSION], ">=", <<12, 2>>) => result = "True"

\* C13, the failing case: nvcc 12.2 is rejected with C++ 23
C13_Nvcc122Cxx23Rejected ==
    /\ Returned("software_dependency_filter") /\ NvccCxxRow
    /\ Device = Tup(NVCC, <<12, 2>>)
    /\ CxxStandard = 23
    /\ result = "False"

\* the job list and the second argument a job function was called with
InputJobs == arg[1]
InputRegex == arg[2]

\* 'p1 p2 ... pk': k >= 1 regexes, separated by one blank each
IsPatternList(str) ==
    /\ Len(str) % 2 = 1
    /\ \A i \in 1..Len(str) : (str[i] = Blank) <=> (i % 2 = 0)

\* p1, ..., pk
PatternsOf(str) == [i \in 1..((Len(str) + 1) \div 2) |-> str[2 * i - 1]]

\* i for a job whose first matching pattern is p_i, k + 1 for a job matching none
FirstMatching(ps, job) ==
    IF \E i \in 1..Len(ps) : Match(ps[i], JobName(job))
    THEN CHOOSE i \in 1..Len(ps) :
            /\ Match(ps[i], JobName(job))
            /\ \A j \in 1..(i - 1) : ~Match(ps[j], JobName(job))
    ELSE Len(ps) + 1

Count(lst, x) == Cardinality({i \in 1..Len(lst) : lst[i] = x})

IsPermutation(a, b) ==
    /\ Len(a) = Len(b)
    /\ \A i \in 1..Len(b) : Count(a, b[i]) = Count(b, b[i])

\* the jobs of lst matching none of ps, in the order of lst
NonMatching(ps, lst) ==
    SelectSeq(lst, LAMBDA job : FirstMatching(ps, job) = Len(ps) + 1)

\* the jobs of lst matching regex, in the order of lst
Matching(regex, lst) == SelectSeq(lst, LAMBDA job : Match(regex, JobName(job)))

\* C14: reorder_job_list(jobs, 'p1 p2 ... pk') returns a permutation of jobs in
\* which a job whose first matching pattern is p_i comes before every job whose
\* first matching pattern is a later one, matching jobs come before the jobs
\* matching no pattern, and the jobs matching no pattern keep their order.
C14_ReorderByPriority ==
    (Returned("reorder_job_list") /\ IsPatternList(InputRegex)) =>
        LET ps == PatternsOf(InputRegex)
        IN  /\ IsPermutation(result, InputJobs)
            /\ \A a \in 1..Len(result) : \A b \in 1..Len(result) :
                    a < b => FirstMatching(ps, result[a]) <= FirstMatching(ps, result[b])
            /\ NonMatching(ps, result) = NonMatching(ps, InputJobs)

\* C14, reached: three patterns, the job of the first one last in the input
C14_ThreePatternsReordered ==
    /\ Returned("reorder_job_list")
    /\ InputRegex = <<{<<"N", "1">>}, Blank, {<<"N">>}, Blank, {<<"G">>}>>
    /\ InputJobs = <<Job(<<"G", "1">>), Job(<<"N", "2">>), Job(<<"N", "1">>)>>
    /\ result = <<Job(<<"N", "1">>), Job(<<"N", "2">>), Job(<<"G", "1">>)>>

\* C15: inside the block reorder_job_list_single_regex moves to the front,
\* the jobs keep the relative order they had in the input.
C15_BlockKeepsInputOrder ==
    Returned("reorder_job_list_single_regex") =>
        /\ Matching(InputRegex, result) = Matching(InputRegex, InputJobs)
        /\ result = Matching(InputRegex, InputJobs)
                    \o NonMatching(<<InputRegex>>, InputJobs)

\* C15, the failing case: the two matching jobs come back in reverse order
C15_BlockReversed ==
    /\ Returned("reorder_job_list_single_regex")
    /\ InputRegex = {<<"N">>}
    /\ InputJobs = <<Job(<<"N", "1">>), Job(<<"C", "1">>), Job(<<"N", "2">>)>>
    /\ result = <<Job(<<"N", "2">>), Job(<<"N", "1">>), Job(<<"C", "1">>)>>

\* C16: reorder_job_list(jobs, '') returns the job list in the order of the
\* input, for every job list.
C16_EmptyPatternListIsIdentity ==
    (Returned("reorder_job_list") /\ InputRegex = << >>) => result = InputJobs

\* C16, the failing case: the empty string reverses a list of two jobs
C16_EmptyPatternListReverses ==
    /\ Returned("reorder_job_list")
    /\ InputRegex = << >>
    /\ InputJobs = <<Job(<<"N", "1">>), Job(<<"G", "1">>)>>
    /\ result = <<Job(<<"G", "1">>), Job(<<"N", "1">>)>>

\* C17: filter_job_list returns exactly the jobs whose name matches the regex,
\* in the order of the input, each as often as the input holds it, and leaves
\* the input as it was; when no job matches the result is the empty list.
C17_FilterIsMatchingSubsequence ==
    Returned("filter_job_list") =>
        /\ result = Matching(InputRegex, InputJobs)
        /\ job_matrix = InputJobs
        /\ (\A i \in 1..Len(InputJobs) : ~Match(InputRegex, JobName(InputJobs[i])))
                => result = << >>

\* C17, reached: the job between two matching ones is dropped
C17_MiddleJobDropped ==
    /\ Returned("filter_job_list")
    /\ InputRegex = {<<"N">>}
    /\ InputJobs = <<Job(<<"N", "2">>), Job(<<"C", "1">>), Job(<<"N", "1">>)>>
    /\ result = <<Job(<<"N", "2">>), Job(<<"N", "1">>)>>
    /\ job_matrix = InputJobs

\* the searched_job search_and_move_job was called with
SearchedJob == arg[2]

\* the job holds every searched item
HoldsAll(job, searched) ==
    \A a \in DOMAIN searched : a \in DOMAIN job /\ job[a] = searched[a]

\* C18: search_and_move_job raises IndexError when searched_job is empty and
\* returns False when no job holds all the searched items; in both cases the
\* job_matrix is left as it was.
C18_SearchFailuresLeaveJobMatrix ==
    Returned("search_and_move_job") =>
        /\ DOMAIN SearchedJob = {} => result = "IndexError"
        /\ (/\ DOMAIN SearchedJob # {}
            /\ \A i \in 1..Len(InputJobs) : ~HoldsAll(InputJobs[i], SearchedJob))
                => result = "False"
        /\ result \in {"IndexError", "False"} => job_matrix = InputJobs

\* C18, reached: a job holds one of the two searched items only
C18_PartialMatchNotMoved ==
    /\ Returned("search_and_move_job")
    /\ Len(InputJobs) = MaxJobs
    /\ DOMAIN SearchedJob = {HOST_COMPILER, DEVICE_COMPILER}
    /\ \E i \in 2..Len(InputJobs) : MatchesSome(InputJobs[i], SearchedJob)
    /\ arg[3] = 0
    /\ result = "False"
    /\ job_matrix = InputJobs

\* check_single_filter has called the filter and returned what it returned
FilterEvaluated ==
    /\ Returned("check_single_filter")
    /\ ~MissingRequired(arg[1], arg[2])
    /\ IsBool(result)

\* C19: after check_single_filter has evaluated a filter and returned True or
\* False, the position map the accessors of util read holds no binding: it
\* has been reset to empty.
C19_PositionMapResetAfterEvaluation ==
    FilterEvaluated => param_map = EmptyDict

\* C19, the failing case: the filter was evaluated on a map that started
\* empty, and the positions written for it are still bound after the return
C19_PositionsStillBound ==
    /\ FilterEvaluated
    /\ arg[2] = <<HOST_COMPILER, DEVICE_COMPILER>>
    /\ result = "True"
    /\ ~validate_shared
    /\ param_map = OrderMap(arg[2])

\* some row of the matrix holds a for the parameter A and b for the parameter B
PairCovered(matrix, A, a, B, b) ==
    \E i \in 1..Len(matrix) : Get(matrix[i], A) = a /\ Get(matrix[i], B) = b

\* the tuples of the claim: two parameters of the domains, the first before
\* the second, with a value of each
PairsOf(domains) ==
    LET values == UNION {Range(domains[k].val) : k \in 1..Len(domains)}
    IN  {t \in (1..Len(domains)) \X values \X (1..Len(domains)) \X values :
            /\ t[1] < t[3]
            /\ t[2] \in Range(domains[t[1]].val)
            /\ t[4] \in Range(domains[t[3]].val)}

\* C21: check_for_results(M, generate_control_matrix(D)) returns True iff every
\* pair of values of two distinct parameters of D is held by some row of M;
\* the expected results are exactly these pairs, one for every unordered pair
\* of parameters; and every expected result that no row holds is reported.
C21_OracleChecksEveryPair ==
    Returned("check_for_results") =>
        LET matrix == arg[1]
            expectedResults == arg[2]
            domains == arg[3]
        IN  /\ result.ret = "True" <=>
                    \A t \in PairsOf(domains) :
                        PairCovered(matrix, domains[t[1]].key, t[2],
                                    domains[t[3]].key, t[4])
            /\ result.ret \in {"True", "False"}
            /\ Range(expectedResults) =
                    {ExpectedResult(domains[t[1]].key, t[2], domains[t[3]].key, t[4]) :
                        t \in PairsOf(domains)}
            /\ Len(expectedResults) = Cardinality(PairsOf(domains))
            /\ Range(result.printed) =
                    {ExpectedResult(domains[t[1]].key, t[2], domains[t[3]].key, t[4]) :
                        t \in {u \in PairsOf(domains) :
                                ~PairCovered(matrix, domains[u[1]].key, u[2],
                                             domains[u[3]].key, u[4])}}

\* C21, reached: a matrix of three rows over three parameters misses two pairs
\* and both are reported
C21_TwoMissingPairsReported ==
    /\ Returned("check_for_results")
    /\ Len(arg[3]) = 3
    /\ Len(arg[1]) = 3
    /\ result.ret = "False"
    /\ Len(result.printed) = 2

\* the backend list holds an entry named b
ListHolds(b) == \E i \in 1..Len(Backends) : Backends[i][NAME] = b

\* C23: under a position map that binds the backends, backend_is_not_in_row(row, b)
\* returns True when the row does not reach the backends (the empty row
\* included); when it does, it returns False iff some entry of the backend list
\* is named b, whatever the version of the entry (OFF included) and whatever
\* parameters follow the backends in the row.
C23_BackendIsNotInRow ==
    (Returned("backend_is_not_in_row") /\ BACKENDS \in DOMAIN param_map) =>
        /\ IsBool(result)
        /\ ~InRow(BACKENDS) => result = "True"
        /\ InRow(BACKENDS) => (result = "False" <=> ListHolds(arg[1]))

\* C23, reached: the CUDA back-end set to OFF, in a row with parameters after
\* the backends, is in the row
C23_DisabledBackendIsInRow ==
    /\ Returned("backend_is_not_in_row")
    /\ InRow(BACKENDS) /\ Len(row) > param_map[BACKENDS] + 1
    /\ arg[1] = ALPAKA_ACC_GPU_CUDA_ENABLE
    /\ HasBackendVersion(ALPAKA_ACC_GPU_CUDA_ENABLE, OFF_VER)
    /\ Len(Backends) = 3
    /\ result = "False"

\* the version of the first entry of the backend list named b
FirstVersionOf(b) ==
    Backends[CHOOSE i \in 1..Len(Backends) :
                /\ Backends[i][NAME] = b
                /\ \A j \in 1..(i - 1) : Backends[j][NAME] # b][VERSION]

\* C29: under a position map that binds the backends,
\* row_check_backend_version(row, b, op, v) returns False for every operator,
\* "!=" included, when the row does not reach the backends or no entry of the
\* list is named b; otherwise it returns the comparison op of the version of
\* the first entry named b with v, as dotted numbers.  An absent back-end is
\* neither equal to OFF nor different from OFF.
C29_AbsentBackendComparesFalse ==
    (Returned("row_check_backend_version") /\ BACKENDS \in DOMAIN param_map) =>
        IF InRow(BACKENDS) /\ ListHolds(arg[1])
        THEN result = PyBool(VersionCompare(FirstVersionOf(arg[1]), arg[2], arg[3]))
        ELSE result = "False"

\* C29, reached: the list holds no CUDA back-end and "!=" OFF is False
C29_AbsentBackendNotDifferentFromOff ==
    /\ Returned("row_check_backend_version")
    /\ InRow(BACKENDS) /\ Len(Backends) = 2 /\ ~ListHolds(ALPAKA_ACC_GPU_CUDA_ENABLE)
    /\ arg = <<ALPAKA_ACC_GPU_CUDA_ENABLE, "!=", OFF_VER>>
    /\ result = "False"

\* the list of versions the documentation of is_supported_version gives a name
ListedVersions(name) ==
    CASE name = CLANG_CUDA -> Range(VersionsDict[CLANG])
      [] name = ALPAKA_ACC_GPU_CUDA_ENABLE -> {OFF_VER} \cup Range(VersionsDict[NVCC])
      [] name = ALPAKA_ACC_GPU_HIP_ENABLE -> {OFF_VER} \cup Range(VersionsDict[HIPCC])
      [] name \in Range(BACKENDS_LIST)
             \ {ALPAKA_ACC_GPU_CUDA_ENABLE, ALPAKA_ACC_GPU_HIP_ENABLE} -> {ON_VER, OFF_VER}
      [] name \in DOMAIN VersionsDict -> Range(VersionsDict[name])
      [] OTHER -> {}

KnownName(name) ==
    name \in DOMAIN VersionsDict \cup {CLANG_CUDA} \cup Range(BACKENDS_LIST)

\* C24: is_supported_version(name, version) raises ValueError iff name is
\* neither a key of versions, nor clang-cuda, nor a back-end name; for every
\* other name it returns True iff version is equal, as a version, to an entry
\* of the list of that name (clang's list for clang-cuda, OFF and nvcc's list
\* for the CUDA back-end, OFF and hipcc's list for the HIP back-end, ON and OFF
\* for every other back-end); no call changes the dict versions.
C24_IsSupportedVersion ==
    /\ versions = VersionsDict
    /\ Returned("is_supported_version") =>
          /\ result = "ValueError" <=> ~KnownName(arg[1])
          /\ KnownName(arg[1]) =>
                result = PyBool(\E v \in ListedVersions(arg[1]) : parse(v) = parse(arg[2]))

\* C24, reached: 12.0.0 is a supported version of the CUDA back-end, being
\* equal as a version to nvcc's 12.0
C24_CudaBackendPatchVersionSupported ==
    /\ Returned("is_supported_version")
    /\ arg = <<ALPAKA_ACC_GPU_CUDA_ENABLE, <<12, 0, 0>>>>
    /\ result = "True"

\* lst without its i-th element
Without(lst, i) == [j \in 1..(Len(lst) - 1) |-> IF j < i THEN lst[j] ELSE lst[j + 1]]

\* the index of the first job holding every searched item, 0 when there is none
FirstHolding(lst, searched) ==
    IF \E i \in 1..Len(lst) : HoldsAll(lst[i], searched)
    THEN CHOOSE i \in 1..Len(lst) :
            /\ HoldsAll(lst[i], searched)
            /\ \A j \in 1..(i - 1) : ~HoldsAll(lst[j], searched)
    ELSE 0

\* C28: when searched_job is not empty and some job holds all of its items,
\* search_and_move_job returns True and, for 0 <= position < len(job_matrix),
\* the first such job is at index position afterwards, while the other jobs
\* are the same jobs in the same relative order: only this one job is moved.
C28_FirstMatchingJobMovedToPosition ==
    (/\ Returned("search_and_move_job")
     /\ DOMAIN SearchedJob # {}
     /\ FirstHolding(InputJobs, SearchedJob) > 0) =>
        /\ result = "True"
        /\ arg[3] \in 0..(Len(InputJobs) - 1) =>
              /\ Len(job_matrix) = Len(InputJobs)
              /\ job_matrix[arg[3] + 1] = InputJobs[FirstHolding(InputJobs, SearchedJob)]
              /\ Without(job_matrix, arg[3] + 1)
                    = Without(InputJobs, FirstHolding(InputJobs, SearchedJob))

\* C28, reached: of three different jobs the last one is moved to the front,
\* and the two others follow in their order
C28_LastJobMovedToFront ==
    /\ Returned("search_and_move_job")
    /\ Len(InputJobs) = 3
    /\ Cardinality(Range(InputJobs)) = 3
    /\ FirstHolding(InputJobs, SearchedJob) = 3
    /\ arg[3] = 0
    /\ result = "True"
    /\ job_matrix = <<InputJobs[3], InputJobs[1], InputJobs[2]>>

\* the row assigns to each key of parameter, in the order of the keys, a value
\* of the domain parameter gives the key
RowOver(r, parameter) ==
    /\ Len(r) = Len(parameter)
    /\ \A j \in 1..Len(r) :
            /\ r[j].key = parameter[j].key
            /\ r[j].val \in Range(parameter[j].val)

\* C30: every row get_matrix(parameter, filter_func) returns assigns to each
\* key of parameter, in the order of its keys, a value of that key's domain in
\* parameter, whatever the module-level name parameters is bound to.
C30_RowsOverArgumentDomains ==
    (Returned("get_matrix") /\ result.raised = "None") =>
        \A i \in 1..Len(result.rows) : RowOver(result.rows[i], arg[1])

\* C30, the failing case: the module-level parameters hold the device
\* compiler and cmake, the argument the host and the device compiler; the
\* returned row gives the host compiler a device compiler that is not in the
\* host's domain, and the device compiler a cmake
C30_RowOverModuleLevelDomains ==
    /\ Returned("get_matrix")
    /\ parameters.defined
    /\ Keys(parameters.value) = <<DEVICE_COMPILER, CMAKE>>
    /\ Keys(arg[1]) = <<HOST_COMPILER, DEVICE_COMPILER>>
    /\ result.raised = "None"
    /\ result.rows[1] = <<Entry(HOST_COMPILER, Tup(NVCC, <<11, 2>>)),
                          Entry(DEVICE_COMPILER, Tup(CMAKE, <<3, 22>>))>>

\* the table of compiler_version_filter for nvcc and the host compiler of the row
HostTable == IF Host[NAME] = GCC THEN gcc_combinations ELSE clang_combinations

\* a row of nvcc with gcc or clang, with an nvcc version the table covers and
\* to which no rule but the table applies
DecidedByHostTable ==
    /\ Returned("compiler_version_filter")
    /\ InRow(HOST_COMPILER) /\ InRow(DEVICE_COMPILER)
    /\ Device[NAME] = NVCC
    /\ Host[NAME] \in {GCC, CLANG}
    /\ VersionCompare(Device[VERSION], "<=", HostTable[1][1])
    /\ Host[NAME] = GCC => VersionCompare(Host[VERSION], ">=", <<6>>)
    /\ Host[NAME] = CLANG =>
            \/ VersionCompare(Device[VERSION], "<", <<11, 3>>)
            \/ VersionCompare(Device[VERSION], ">", <<11, 5>>)

\* the entries of the table whose CUDA version is >= the nvcc version of the row
EntriesAtLeast ==
    {i \in 1..Len(HostTable) : VersionCompare(HostTable[i][1], ">=", Device[VERSION])}

\* the entries of the table whose CUDA version is <= the nvcc version of the row
EntriesAtMost ==
    {i \in 1..Len(HostTable) : VersionCompare(HostTable[i][1], "<=", Device[VERSION])}

\* the first of a set of entries
First(entries) == CHOOSE i \in entries : \A j \in entries : i <= j

\* C27, as stated: in the nvcc host-compiler tables of
\* compiler_version_filter, walked front to back, the first entry whose CUDA
\* version is >= the nvcc version of the row decides the maximum host compiler
\* version admitted.
C27_FirstEntryAtLeastDecides ==
    (DecidedByHostTable /\ EntriesAtLeast # {}) =>
        (result = "False" <=>
            VersionCompare(Host[VERSION], ">", HostTable[First(EntriesAtLeast)][2]))

\* C27, amended: the tables are walked front to back and the first entry
\* whose CUDA version is <= the nvcc version of the row decides the maximum
\* host compiler version admitted; an nvcc older than every entry is admitted
\* with every host compiler version.
C27_FirstEntryAtMostDecides ==
    DecidedByHostTable =>
        /\ IsBool(result)
        /\ EntriesAtMost # {} =>
              (result = "False" <=>
                  VersionCompare(Host[VERSION], ">", HostTable[First(EntriesAtMost)][2]))
        /\ EntriesAtMost = {} => result = "True"

\* C27, reached: nvcc 11.0 rejects gcc 10, which the first entry of the table
\* (12.3, gcc 12) admits and the entry (11.0, gcc 9) does not
C27_Nvcc110RejectsGcc10 ==
    /\ DecidedByHostTable
    /\ Host = Tup(GCC, <<10>>) /\ Device = Tup(NVCC, <<11, 0>>)
    /\ First(EntriesAtLeast) = 1
    /\ First(EntriesAtMost) = 5
    /\ result = "False"

\* the row of the call cut after its first n parameters
Prefix(n) == SubSeq(row, 1, n)

\* C25: under a fixed position map, a row that one of the four filter
\* functions admits has no prefix the same filter rejects: rejecting a
\* partial row rejects every row extending it.
C25_PrefixRejectionIsSound ==
    (pc = "returned" /\ fn \in Filters /\ result = "True") =>
        \A n \in 0..(Len(row) - 1) : ApplyFilter(fn, param_map, Prefix(n)) # "False"

\* C25, the failing case: the device compiler comes before the host compiler;
\* general_compiler_filter rejects the row holding nvcc alone and admits the
\* same row extended by gcc as host compiler
C25_NvccAloneRejectedThenAdmitted ==
    /\ Returned("general_compiler_filter")
    /\ param_map[DEVICE_COMPILER] = 0 /\ param_map[HOST_COMPILER] = 1
    /\ Len(row) = 2
    /\ row[1][NAME] = NVCC /\ row[2][NAME] = GCC
    /\ general_compiler_filter(param_map, Prefix(1)) = "False"
    /\ result = "True"

\* C26: every call of check_single_filter that evaluates its filter returns
\* what the filter gives for the row of the call under the positions of the
\* call's own parameter set, whatever calls came before it in the process.
C26_FilterReadsOwnPositions ==
    FilterEvaluated => result = ApplyFilter(arg[1], OrderMap(arg[2]), row)

\* C26, the failing case: a call whose parameters come in another order than
\* the positions the accessors read, left by an earlier call; the filter
\* takes the nvcc device compiler for the host compiler and rejects the row,
\* which under the call's own positions it admits
C26_PositionsOfEarlierCallRead ==
    /\ FilterEvaluated
    /\ ~validate_shared
    /\ arg[1] = "general_compiler_filter"
    /\ arg[2] = <<DEVICE_COMPILER, HOST_COMPILER>>
    /\ param_map[HOST_COMPILER] = 0 /\ param_map[DEVICE_COMPILER] = 1
    /\ row[1][NAME] = NVCC /\ row[2][NAME] = GCC
    /\ result = "False"
    /\ ApplyFilter(arg[1], OrderMap(arg[2]), row) = "True"

RECURSIVE Concat(_, _)
\* the waves from the i-th on, one after the other
Concat(waves, i) ==
    IF i > Len(waves) THEN << >> ELSE waves[i] \o Concat(waves, i + 1)

\* C22: distribute_to_waves(jobs, n) cuts the job list into at most n
\* contiguous waves whose sizes differ by at most one and which, one after
\* the other, give the job list again; 23 jobs in 10 waves give waves of 2 or
\* 3 jobs, 23 jobs in all.
C22_WavesAreBalancedPartition ==
    Returned("distribute_to_waves") =>
        /\ Len(result) <= arg[2]
        /\ \A i, j \in 1..Len(result) : Len(result[i]) - Len(result[j]) <= 1
        /\ Concat(result, 1) = arg[1]
        /\ (Len(arg[1]) = 23 /\ arg[2] = 10) =>
                \A i \in 1..Len(result) : Len(result[i]) \in {2, 3}

\* C22, reached: 23 jobs in 10 waves, three of 3 jobs and seven of 2
C22_TwentyThreeJobsInTenWaves ==
    /\ Returned("distribute_to_waves")
    /\ Len(arg[1]) = 23 /\ arg[2] = 10
    /\ Len(result) = 10
    /\ Cardinality({i \in 1..10 : Len(result[i]) = 3}) = 3
    /\ Cardinality({i \in 1..10 : Len(result[i]) = 2}) = 7

====
